---- MODULE Spec2Model ----
(***************************************************************************)
(* Model of three core structures of the node:                             *)
(*   - the grandpa ChangeTree (pending authority-set changes per fork),    *)
(*   - the client LeafSet (tips of the block DAG),                         *)
(*   - the runtime TrieState (nested storage transactions over a trie).    *)
(* Each structure has its own specification (SpecCT, SpecLS, SpecTS, ...); *)
(* the variables of the other structures stay at their initial values.     *)
(***************************************************************************)
EXTENDS Integers, Sequences, FiniteSets, TLC

VARIABLES
    TreeRoots,            \* ChangeTree.TreeRoots: sequence of PendingChangeNode
    BestFinalizedNumber,  \* ChangeTree.BestFinalizedNumber: <<>> (nil) or <<n>>
    ctRet,                \* what the last ChangeTree call was given and returned
    storage,              \* LeafSet.storage: number -> sequence of hashes
    lsRet,                \* what the last LeafSet call was given and returned
    lsPre,                \* LeafSet.storage as it was before the last call
    blocks,               \* the blocks the backend holds (the callers' block tree)
    ts,                   \* the TrieState object
    ref,                  \* a second TrieState object that receives writes directly
    tsRet,                \* what the last TrieState call was given and returned
    tsViews,              \* Get-view of ts observed at each open StartTransaction
    mtx,                  \* TrieState.mtx: who holds the sync.RWMutex
    calls,                \* the TrieState call each goroutine is inside, or "idle"
    cv                    \* the CandidateValidation subsystem and its channels

vars == <<TreeRoots, BestFinalizedNumber, ctRet, storage, lsRet, lsPre, blocks,
          ts, ref, tsRet, tsViews, mtx, calls, cv>>

ctVars == <<TreeRoots, BestFinalizedNumber, ctRet>>
lsVars == <<storage, lsRet, lsPre, blocks>>
lkVars == <<mtx, calls>>
cvVars == <<cv>>
tsVars == <<ts, ref, tsRet, tsViews, lkVars>>

Last(s) == s[Len(s)]
Front(s) == SubSeq(s, 1, Len(s) - 1)

(***************************************************************************)
(* Block universe and descendant oracle used to drive the ChangeTree.      *)
(*                                                                         *)
(*      hA(10) --- hB(11) --- hD(12)                                       *)
(*          \----- hC(11)                                                  *)
(*      hE(10)                  (a fork that does not descend from hA)     *)
(***************************************************************************)
Hashes == {"hA", "hB", "hC", "hD", "hE"}

Height ==
    [h \in Hashes |->
        CASE h = "hA" -> 10
          [] h = "hB" -> 11
          [] h = "hC" -> 11
          [] h = "hD" -> 12
          [] h = "hE" -> 10]

Ancestors ==
    [h \in Hashes |->
        CASE h = "hA" -> {}
          [] h = "hB" -> {"hA"}
          [] h = "hC" -> {"hA"}
          [] h = "hD" -> {"hA", "hB"}
          [] h = "hE" -> {}]

\* IsDescendentOf(base, target): target is a proper descendant of base.
isDescendentOf(base, target) == base \in Ancestors[target]

\* Predicates a caller may hand to the Finalize* calls, as the set of
\* hashes of the changes for which the predicate holds.
Predicates == {Hashes, {}, {"hB", "hD", "hE"}}

\* Bound on the number of nodes kept in the forest.
MaxNodes == 5

(***************************************************************************)
(* ChangeTree                                                              *)
(***************************************************************************)
NilNumber == <<>>

PendingChangeNode(hash, number) ==
    [Change |-> [CanonHash |-> hash, CanonHeight |-> number], Children |-> <<>>]

RECURSIVE getPreOrderChangeNodes(_)
getPreOrderChangeNodes(changeNode) ==
    LET RECURSIVE over(_, _)
        over(children, i) ==
            IF i > Len(children) THEN <<>>
            ELSE getPreOrderChangeNodes(children[i]) \o over(children, i + 1)
    IN <<changeNode>> \o over(changeNode.Children, 1)

RECURSIVE getPreOrderChangeNodesOfRoots(_, _)
getPreOrderChangeNodesOfRoots(roots, i) ==
    IF i > Len(roots) THEN <<>>
    ELSE getPreOrderChangeNodes(roots[i]) \o getPreOrderChangeNodesOfRoots(roots, i + 1)

\* PendingChanges: the changes of the forest in pre-order.
PendingChanges(roots) ==
    LET nodes == getPreOrderChangeNodesOfRoots(roots, 1)
    IN [i \in 1..Len(nodes) |-> nodes[i].Change]

\* importNodeTakes without the ancestry check.
importNodeTakesAnyBranch(pcn, hash, number) ==
    ~(number <= pcn.Change.CanonHeight)

\* The two early returns of importNode after the duplicate check: the node
\* takes the import only when it is an ancestor of hash at a lower height.
importNodeTakes(pcn, hash, number) ==
    /\ isDescendentOf(pcn.Change.CanonHash, hash)
    /\ ~(number <= pcn.Change.CanonHeight)

\* The duplicate check of importNode, never raised.
isDuplicateHashNever(pcn, hash) == FALSE

\* The first check of importNode: the visited node carries the imported hash.
isDuplicateHash(pcn, hash) == hash = pcn.Change.CanonHash

\* importNode returns [imported, err, node]: node is pcn with the new node
\* attached somewhere below it when imported is TRUE.
RECURSIVE importNode(_, _, _)
importNode(pcn, hash, number) ==
    LET RECURSIVE children(_, _)
        \* the loop over pcn.Children, from index i on
        children(cs, i) ==
            IF i > Len(cs)
            THEN [imported |-> TRUE, err |-> "none",
                  children |-> Append(cs, PendingChangeNode(hash, number))]
            ELSE LET r == importNode(cs[i], hash, number)
                 IN IF r.err # "none"
                    THEN [imported |-> FALSE, err |-> r.err, children |-> cs]
                    ELSE IF r.imported
                    THEN [imported |-> TRUE, err |-> "none",
                          children |-> [cs EXCEPT ![i] = r.node]]
                    ELSE children(cs, i + 1)
    IN IF isDuplicateHash(pcn, hash)
       THEN [imported |-> FALSE, err |-> "DuplicateHashes", node |-> pcn]
       ELSE IF ~importNodeTakes(pcn, hash, number)
       THEN [imported |-> FALSE, err |-> "none", node |-> pcn]
       ELSE LET c == children(pcn.Children, 1)
            IN [imported |-> c.imported, err |-> c.err,
                node |-> [pcn EXCEPT !.Children = c.children]]

\* ChangeTree.Import as a function of the roots: [isRoot, err, roots].
RECURSIVE importRoots(_, _, _, _)
importRoots(roots, i, hash, number) ==
    IF i > Len(roots)
    THEN [isRoot |-> TRUE, err |-> "none",
          roots |-> Append(roots, PendingChangeNode(hash, number))]
    ELSE LET r == importNode(roots[i], hash, number)
         IN IF r.err # "none"
            THEN [isRoot |-> FALSE, err |-> r.err, roots |-> roots]
            ELSE IF r.imported
            THEN [isRoot |-> FALSE, err |-> "none",
                  roots |-> [roots EXCEPT ![i] = r.node]]
            ELSE importRoots(roots, i + 1, hash, number)

\* Import with the new node appended to the roots before the error of a
\* visited node is returned.
ImportResultAppendsOnError(roots, hash, number) ==
    LET r == importRoots(roots, 1, hash, number)
    IN IF r.err # "none"
       THEN [r EXCEPT !.roots = Append(roots, PendingChangeNode(hash, number))]
       ELSE r

ImportResult(roots, hash, number) == importRoots(roots, 1, hash, number)

\* unfinalisedChild with a strict height comparison.
RECURSIVE unfinalisedChildStrict(_, _, _, _)
unfinalisedChildStrict(children, i, hash, number) ==
    IF i > Len(children) THEN FALSE
    ELSE LET child == children[i]
             isChildDescOf == isDescendentOf(child.Change.CanonHash, hash)
         IN IF child.Change.CanonHeight < number
               /\ (child.Change.CanonHash = hash \/ isChildDescOf)
            THEN TRUE
            ELSE unfinalisedChildStrict(children, i + 1, hash, number)

\* The check of one matched node against its children (the inner loop of
\* both Finalize* calls): TRUE when a child is equal to or an ancestor of the
\* finalized block at or below its height.
RECURSIVE unfinalisedChild(_, _, _, _)
unfinalisedChild(children, i, hash, number) ==
    IF i > Len(children) THEN FALSE
    ELSE LET child == children[i]
             isChildDescOf == isDescendentOf(child.Change.CanonHash, hash)
         IN IF child.Change.CanonHeight <= number
               /\ (child.Change.CanonHash = hash \/ isChildDescOf)
            THEN TRUE
            ELSE unfinalisedChild(children, i + 1, hash, number)

\* The root test of FinalizesAnyWithDescendentIf answering true for any node.
isRootHashAlways(roots, h) == TRUE

isRootHash(roots, h) == \E j \in 1..Len(roots) : roots[j].Change.CanonHash = h

\* FinalizesAnyWithDescendentIf: [err, ret] with ret = <<>> (nil) or <<bool>>.
FinalizesAnyWithDescendentIf(roots, best, hash, number, predicate) ==
    LET nodes == getPreOrderChangeNodesOfRoots(roots, 1)
        RECURSIVE scan(_)
        scan(i) ==
            IF i > Len(nodes) THEN [err |-> "none", ret |-> <<>>]
            ELSE LET root == nodes[i]
                     isDesc == isDescendentOf(root.Change.CanonHash, hash)
                 IN IF root.Change.CanonHash \in predicate
                       /\ (root.Change.CanonHash = hash \/ isDesc)
                    THEN IF unfinalisedChild(root.Children, 1, hash, number)
                         THEN [err |-> "UnfinalisedAncestor", ret |-> <<>>]
                         ELSE [err |-> "none",
                               ret |-> <<isRootHash(roots, root.Change.CanonHash)>>]
                    ELSE scan(i + 1)
    IN IF best # NilNumber /\ number <= best[1]
       THEN [err |-> "Revert", ret |-> <<>>]
       ELSE scan(1)

\* swapRemove: the removed element and the roots with the last element moved
\* into its place.
swapRemove(roots, index) ==
    LET newRoots == Front(roots)
    IN [val |-> roots[index],
        roots |-> IF index = Len(roots) THEN newRoots
                  ELSE [newRoots EXCEPT ![index] = Last(roots)]]

\* The first loop of FinalizeWithDescendentIf: [err, position] with
\* position = 0 when no root matches (nil).
RECURSIVE findPosition(_, _, _, _, _)
findPosition(roots, i, hash, number, predicate) ==
    IF i > Len(roots) THEN [err |-> "none", position |-> 0]
    ELSE LET root == roots[i]
             isDesc == isDescendentOf(root.Change.CanonHash, hash)
         IN IF root.Change.CanonHash \in predicate
               /\ (root.Change.CanonHash = hash \/ isDesc)
            THEN IF unfinalisedChild(root.Children, 1, hash, number)
                 THEN [err |-> "UnfinalisedAncestor", position |-> 0]
                 ELSE [err |-> "none", position |-> i]
            ELSE findPosition(roots, i + 1, hash, number, predicate)

\* Whether the pruning loop retains a root.
retainRoot(root, hash, number) ==
    IF root.Change.CanonHeight > number
    THEN isDescendentOf(hash, root.Change.CanonHash)
    ELSE IF root.Change.CanonHeight = number /\ root.Change.CanonHash = hash
    THEN TRUE
    ELSE isDescendentOf(root.Change.CanonHash, hash)

\* The pruning loop: [roots, didChange, best]; BestFinalizedNumber is
\* assigned inside the loop body, once per remaining root.
RECURSIVE pruneRoots(_, _, _, _, _)
pruneRoots(roots, i, hash, number, acc) ==
    IF i > Len(roots) THEN acc
    ELSE LET retain == retainRoot(roots[i], hash, number)
         IN pruneRoots(roots, i + 1, hash, number,
                [roots |-> IF retain THEN Append(acc.roots, roots[i]) ELSE acc.roots,
                 didChange |-> acc.didChange \/ ~retain,
                 best |-> <<number>>])

Unchanged == [kind |-> "Unchanged", value |-> <<>>]
\* Changed that loses the finalized change.
ChangedWithoutValue(value) == [kind |-> "Changed", value |-> <<>>]

Changed(value) == [kind |-> "Changed", value |-> value]
NoResult == [kind |-> "none", value |-> <<>>]

\* FinalizeWithDescendentIf: [err, result, roots, best].
FinalizeWithDescendentIf(roots, best, hash, number, predicate) ==
    IF best # NilNumber /\ number <= best[1]
    THEN [err |-> "Revert", result |-> NoResult, roots |-> roots, best |-> best]
    ELSE
    LET p == findPosition(roots, 1, hash, number, predicate)
    IN IF p.err # "none"
       THEN [err |-> p.err, result |-> NoResult, roots |-> roots, best |-> best]
       ELSE
       LET found == p.position # 0
           node == swapRemove(roots, p.position).val
           roots1 == IF found THEN node.Children ELSE roots
           best1 == IF found THEN <<node.Change.CanonHeight>> ELSE best
           nodeData == IF found THEN <<node.Change>> ELSE <<>>
           pr == pruneRoots(roots1, 1, hash, number,
                            [roots |-> <<>>, didChange |-> FALSE, best |-> best1])
       IN [err |-> "none",
           result |-> IF nodeData # <<>> THEN Changed(nodeData)
                      ELSE IF pr.didChange THEN Changed(<<>>)
                      ELSE Unchanged,
           roots |-> pr.roots,
           best |-> pr.best]

nodeCount(roots) == Len(getPreOrderChangeNodesOfRoots(roots, 1))

NoCtRet ==
    [op |-> "none", hash |-> "hA", number |-> 0, predicate |-> {}, err |-> "none",
     isRoot |-> FALSE, finalizes |-> <<>>, result |-> NoResult]

\* ---- ChangeTree actions ----
Import(hash) ==
    LET number == Height[hash]
        r == ImportResult(TreeRoots, hash, number)
    IN /\ r.err # "none" \/ nodeCount(TreeRoots) < MaxNodes
       /\ TreeRoots' = r.roots
       /\ BestFinalizedNumber' = BestFinalizedNumber
       /\ ctRet' = [NoCtRet EXCEPT !.op = "Import", !.hash = hash, !.number = number,
                                   !.err = r.err, !.isRoot = r.isRoot]
       /\ UNCHANGED <<lsVars, tsVars, cvVars>>

FinalizesAny(hash, predicate) ==
    LET number == Height[hash]
        r == FinalizesAnyWithDescendentIf(TreeRoots, BestFinalizedNumber,
                                          hash, number, predicate)
    IN /\ UNCHANGED <<TreeRoots, BestFinalizedNumber>>
       /\ ctRet' = [NoCtRet EXCEPT !.op = "FinalizesAny", !.hash = hash,
                                   !.number = number, !.predicate = predicate,
                                   !.err = r.err, !.finalizes = r.ret]
       /\ UNCHANGED <<lsVars, tsVars, cvVars>>

Finalize(hash, predicate) ==
    LET number == Height[hash]
        r == FinalizeWithDescendentIf(TreeRoots, BestFinalizedNumber,
                                      hash, number, predicate)
    IN /\ TreeRoots' = r.roots
       /\ BestFinalizedNumber' = r.best
       /\ ctRet' = [NoCtRet EXCEPT !.op = "Finalize", !.hash = hash,
                                   !.number = number, !.predicate = predicate,
                                   !.err = r.err, !.result = r.result]
       /\ UNCHANGED <<lsVars, tsVars, cvVars>>


\* ---- the same calls with a descendant oracle that fails ----
\* isDescendentOf returns an error on the failAt-th query of a call and
\* answers the queries before it. Every operator below threads q, the
\* number of queries made so far, through the loops of the code.
MaxQueries == 3

\* importNode: [imported, err, node, q].
RECURSIVE importNodeFailing(_, _, _, _, _)
importNodeFailing(pcn, hash, number, q, failAt) ==
    LET RECURSIVE children(_, _, _)
        children(cs, i, qc) ==
            IF i > Len(cs)
            THEN [imported |-> TRUE, err |-> "none", q |-> qc,
                  children |-> Append(cs, PendingChangeNode(hash, number))]
            ELSE LET r == importNodeFailing(cs[i], hash, number, qc, failAt)
                 IN IF r.err # "none"
                    THEN [imported |-> FALSE, err |-> r.err, q |-> r.q, children |-> cs]
                    ELSE IF r.imported
                    THEN [imported |-> TRUE, err |-> "none", q |-> r.q,
                          children |-> [cs EXCEPT ![i] = r.node]]
                    ELSE children(cs, i + 1, r.q)
    IN IF isDuplicateHash(pcn, hash)
       THEN [imported |-> FALSE, err |-> "DuplicateHashes", node |-> pcn, q |-> q]
       ELSE IF q + 1 = failAt
       THEN [imported |-> FALSE, err |-> "OracleError", node |-> pcn, q |-> q + 1]
       ELSE IF ~importNodeTakes(pcn, hash, number)
       THEN [imported |-> FALSE, err |-> "none", node |-> pcn, q |-> q + 1]
       ELSE LET c == children(pcn.Children, 1, q + 1)
            IN [imported |-> c.imported, err |-> c.err, q |-> c.q,
                node |-> [pcn EXCEPT !.Children = c.children]]

\* ChangeTree.Import: [isRoot, err, roots].
RECURSIVE importRootsFailing(_, _, _, _, _, _)
importRootsFailing(roots, i, hash, number, q, failAt) ==
    IF i > Len(roots)
    THEN [isRoot |-> TRUE, err |-> "none",
          roots |-> Append(roots, PendingChangeNode(hash, number))]
    ELSE LET r == importNodeFailing(roots[i], hash, number, q, failAt)
         IN IF r.err # "none"
            THEN [isRoot |-> FALSE, err |-> r.err, roots |-> roots]
            ELSE IF r.imported
            THEN [isRoot |-> FALSE, err |-> "none",
                  roots |-> [roots EXCEPT ![i] = r.node]]
            ELSE importRootsFailing(roots, i + 1, hash, number, r.q, failAt)

\* The loop over the children of a matched node: [err, q].
RECURSIVE unfinalisedChildFailing(_, _, _, _, _, _)
unfinalisedChildFailing(children, i, hash, number, q, failAt) ==
    IF i > Len(children) THEN [err |-> "none", q |-> q]
    ELSE IF q + 1 = failAt THEN [err |-> "OracleError", q |-> q + 1]
    ELSE IF children[i].Change.CanonHeight <= number
            /\ (children[i].Change.CanonHash = hash
                \/ isDescendentOf(children[i].Change.CanonHash, hash))
    THEN [err |-> "UnfinalisedAncestor", q |-> q + 1]
    ELSE unfinalisedChildFailing(children, i + 1, hash, number, q + 1, failAt)

\* The search of both Finalize* calls over nodes (all nodes in pre-order,
\* or the roots): [err, position, q], position 0 when no node matches.
RECURSIVE findPositionFailing(_, _, _, _, _, _, _)
findPositionFailing(nodes, i, hash, number, predicate, q, failAt) ==
    IF i > Len(nodes) THEN [err |-> "none", position |-> 0, q |-> q]
    ELSE IF q + 1 = failAt THEN [err |-> "OracleError", position |-> 0, q |-> q + 1]
    ELSE IF nodes[i].Change.CanonHash \in predicate
            /\ (nodes[i].Change.CanonHash = hash
                \/ isDescendentOf(nodes[i].Change.CanonHash, hash))
    THEN LET c == unfinalisedChildFailing(nodes[i].Children, 1, hash, number,
                                          q + 1, failAt)
         IN [err |-> c.err, position |-> IF c.err = "none" THEN i ELSE 0, q |-> c.q]
    ELSE findPositionFailing(nodes, i + 1, hash, number, predicate, q + 1, failAt)

\* FinalizesAnyWithDescendentIf: [err, ret].
FinalizesAnyFailing(roots, best, hash, number, predicate, failAt) ==
    IF best # NilNumber /\ number <= best[1]
    THEN [err |-> "Revert", ret |-> <<>>]
    ELSE LET nodes == getPreOrderChangeNodesOfRoots(roots, 1)
             p == findPositionFailing(nodes, 1, hash, number, predicate, 0, failAt)
         IN [err |-> p.err,
             ret |-> IF p.position = 0 THEN <<>>
                     ELSE <<isRootHash(roots, nodes[p.position].Change.CanonHash)>>]

\* The pruning loop: [err, roots, didChange, best]. ct.TreeRoots has been
\* emptied before the loop and is appended to root by root, so a failing
\* query returns with the roots retained so far.
RECURSIVE pruneRootsFailing(_, _, _, _, _, _, _)
pruneRootsFailing(roots, i, hash, number, acc, q, failAt) ==
    IF i > Len(roots) THEN acc
    ELSE LET queries == ~(roots[i].Change.CanonHeight = number
                          /\ roots[i].Change.CanonHash = hash)
             q1 == IF queries THEN q + 1 ELSE q
             retain == retainRoot(roots[i], hash, number)
         IN IF queries /\ q1 = failAt
            THEN [acc EXCEPT !.err = "OracleError"]
            ELSE pruneRootsFailing(roots, i + 1, hash, number,
                     [err |-> "none",
                      roots |-> IF retain THEN Append(acc.roots, roots[i]) ELSE acc.roots,
                      didChange |-> acc.didChange \/ ~retain,
                      best |-> <<number>>],
                     q1, failAt)

\* FinalizeWithDescendentIf: [err, result, roots, best].
FinalizeFailing(roots, best, hash, number, predicate, failAt) ==
    IF best # NilNumber /\ number <= best[1]
    THEN [err |-> "Revert", result |-> NoResult, roots |-> roots, best |-> best]
    ELSE
    LET p == findPositionFailing(roots, 1, hash, number, predicate, 0, failAt)
    IN IF p.err # "none"
       THEN [err |-> p.err, result |-> NoResult, roots |-> roots, best |-> best]
       ELSE
       LET found == p.position # 0
           node == swapRemove(roots, p.position).val
           roots1 == IF found THEN node.Children ELSE roots
           best1 == IF found THEN <<node.Change.CanonHeight>> ELSE best
           nodeData == IF found THEN <<node.Change>> ELSE <<>>
           pr == pruneRootsFailing(roots1, 1, hash, number,
                                   [err |-> "none", roots |-> <<>>,
                                    didChange |-> FALSE, best |-> best1],
                                   p.q, failAt)
       IN IF pr.err # "none"
          THEN [err |-> pr.err, result |-> NoResult, roots |-> pr.roots,
                best |-> pr.best]
          ELSE [err |-> "none",
                result |-> IF nodeData # <<>> THEN Changed(nodeData)
                           ELSE IF pr.didChange THEN Changed(<<>>)
                           ELSE Unchanged,
                roots |-> pr.roots,
                best |-> pr.best]

\* The three calls in which the oracle does fail.
ImportOracleFails(hash, failAt) ==
    LET number == Height[hash]
        r == importRootsFailing(TreeRoots, 1, hash, number, 0, failAt)
    IN /\ r.err = "OracleError"
       /\ TreeRoots' = r.roots
       /\ BestFinalizedNumber' = BestFinalizedNumber
       /\ ctRet' = [NoCtRet EXCEPT !.op = "Import", !.hash = hash, !.number = number,
                                   !.err = r.err, !.isRoot = r.isRoot]
       /\ UNCHANGED <<lsVars, tsVars, cvVars>>

FinalizesAnyOracleFails(hash, predicate, failAt) ==
    LET number == Height[hash]
        r == FinalizesAnyFailing(TreeRoots, BestFinalizedNumber,
                                 hash, number, predicate, failAt)
    IN /\ r.err = "OracleError"
       /\ UNCHANGED <<TreeRoots, BestFinalizedNumber>>
       /\ ctRet' = [NoCtRet EXCEPT !.op = "FinalizesAny", !.hash = hash,
                                   !.number = number, !.predicate = predicate,
                                   !.err = r.err, !.finalizes = r.ret]
       /\ UNCHANGED <<lsVars, tsVars, cvVars>>

FinalizeOracleFails(hash, predicate, failAt) ==
    LET number == Height[hash]
        r == FinalizeFailing(TreeRoots, BestFinalizedNumber,
                             hash, number, predicate, failAt)
    IN /\ r.err = "OracleError"
       /\ TreeRoots' = r.roots
       /\ BestFinalizedNumber' = r.best
       /\ ctRet' = [NoCtRet EXCEPT !.op = "Finalize", !.hash = hash,
                                   !.number = number, !.predicate = predicate,
                                   !.err = r.err, !.result = r.result]
       /\ UNCHANGED <<lsVars, tsVars, cvVars>>

(***************************************************************************)
(* LeafSet                                                                 *)
(***************************************************************************)
LeafHashes == {"h1", "h2", "h3"}

\* Bound on block numbers handed to the LeafSet.
MaxNumber == 2

\* Bound on the number of entries kept in the LeafSet.
MaxLeaves == 2

Numbers == 0..MaxNumber

EmptyMap == [n \in {} |-> <<>>]

\* btree.Map.Set / Delete on a map held as a function.
MapSet(m, key, value) ==
    [n \in DOMAIN m \cup {key} |-> IF n = key THEN value ELSE m[n]]

MapDelete(m, key) == [n \in DOMAIN m \ {key} |-> m[n]]

SeqContains(seq, x) == \E i \in 1..Len(seq) : seq[i] = x

insertLeaf(st, number, hash) ==
    IF number \notin DOMAIN st
    THEN MapSet(st, number, <<hash>>)
    ELSE MapSet(st, number, Append(st[number], hash))

\* removeLeaf dropping the first occurrence of the hash only.
removeLeafFirstOnly(st, number, hash) ==
    IF number \notin DOMAIN st
    THEN [removed |-> FALSE, st |-> st]
    ELSE LET leaves == st[number]
             found == SeqContains(leaves, hash)
             first == IF found
                      THEN CHOOSE i \in 1..Len(leaves) :
                               leaves[i] = hash /\ \A j \in 1..(i - 1) : leaves[j] # hash
                      ELSE 0
             retained == [i \in 1..(Len(leaves) - (IF found THEN 1 ELSE 0)) |->
                             IF i < first \/ ~found THEN leaves[i] ELSE leaves[i + 1]]
             st1 == MapSet(st, number, retained)
         IN [removed |-> found,
             st |-> IF found /\ Len(retained) = 0 THEN MapDelete(st1, number) ELSE st1]

\* removeLeaf: [removed, st].
removeLeaf(st, number, hash) ==
    IF number \notin DOMAIN st
    THEN [removed |-> FALSE, st |-> st]
    ELSE LET leaves == st[number]
             found == SeqContains(leaves, hash)
             retained == SelectSeq(leaves, LAMBDA h : h # hash)
             st1 == MapSet(st, number, retained)
         IN [removed |-> found,
             st |-> IF found /\ Len(retained) = 0 THEN MapDelete(st1, number) ELSE st1]

\* Import that inserts the new leaf and leaves the parent in the set.
LeafSetImportKeepsParent(st, hash, number, parentHash) ==
    [st |-> insertLeaf(st, number, hash),
     inserted |-> [hash |-> hash, number |-> number],
     removed |-> <<>>]

\* LeafSet.Import: [st, inserted, removed] with removed = <<>> (nil) or <<h>>.
LeafSetImport(st, hash, number, parentHash) ==
    LET r == IF number # 0 THEN removeLeaf(st, number - 1, parentHash)
             ELSE [removed |-> FALSE, st |-> st]
    IN [st |-> insertLeaf(r.st, number, hash),
        inserted |-> [hash |-> hash, number |-> number],
        removed |-> IF r.removed THEN <<parentHash>> ELSE <<>>]

\* LeafSet.Remove with parentHash = <<>> (nil) or <<h>>:
\* [some, st, inserted, removed]; some = FALSE is the nil return.
LeafSetRemove(st, hash, number, parentHash) ==
    LET r == removeLeaf(st, number, hash)
        item == [hash |-> hash, number |-> number]
    IN IF ~r.removed
       THEN [some |-> FALSE, st |-> st, inserted |-> <<>>, removed |-> item]
       ELSE IF parentHash # <<>>
       THEN IF number # 0
            THEN [some |-> TRUE, st |-> insertLeaf(r.st, number - 1, parentHash[1]),
                  inserted |-> parentHash, removed |-> item]
            ELSE [some |-> FALSE, st |-> r.st, inserted |-> <<>>, removed |-> item]
       ELSE [some |-> TRUE, st |-> r.st, inserted |-> <<>>, removed |-> item]

\* storage.Ascend(boundary, iter) with an iter that returns false: the
\* iteration visits the first key at or above the pivot and stops.
AscendFirst(st, boundary) ==
    LET above == {k \in DOMAIN st : k >= boundary}
    IN IF above = {} THEN {}
       ELSE {CHOOSE k \in above : \A j \in above : k <= j}

\* FinalizeHeight recording the displaced level under the boundary instead
\* of under its own number.
FinalizeHeightRecordsBoundary(st, number) ==
    IF number = 0
    THEN [st |-> st, removed |-> EmptyMap]
    ELSE LET boundary == number - 1
             visited == AscendFirst(st, boundary)
         IN [st |-> [n \in DOMAIN st \ visited |-> st[n]],
             removed |-> IF visited = {} THEN EmptyMap
                         ELSE [n \in {boundary} |-> st[CHOOSE k \in visited : TRUE]]]

\* LeafSet.FinalizeHeight: [st, removed].
FinalizeHeight(st, number) ==
    IF number = 0
    THEN [st |-> st, removed |-> EmptyMap]
    ELSE LET boundary == number - 1
             visited == AscendFirst(st, boundary)
         IN [st |-> [n \in DOMAIN st \ visited |-> st[n]],
             removed |-> [n \in visited |-> st[n]]]

\* LeafSet.DisplacedByFinalHeight: the removed map, storage untouched.
DisplacedByFinalHeight(st, number) ==
    IF number = 0
    THEN EmptyMap
    ELSE LET boundary == number - 1
             visited == AscendFirst(st, boundary)
         IN [n \in visited |-> st[n]]

\* The items of the storage in the order of storage.Reverse: numbers
\* descending, hashes of a level in slice order.
RECURSIVE reverseItems(_, _)
reverseItems(st, keys) ==
    IF keys = {} THEN <<>>
    ELSE LET k == CHOOSE x \in keys : \A y \in keys : y <= x
         IN [i \in 1..Len(st[k]) |-> [hash |-> st[k][i], number |-> k]]
            \o reverseItems(st, keys \ {k})

\* LeafSet.Hashes
LeafSetHashes(st) ==
    LET items == reverseItems(st, DOMAIN st)
    IN [i \in 1..Len(items) |-> items[i].hash]

RECURSIVE sumLevels(_, _)
sumLevels(st, keys) ==
    IF keys = {} THEN 0
    ELSE LET k == CHOOSE x \in keys : TRUE
         IN Len(st[k]) + sumLevels(st, keys \ {k})

\* LeafSet.Count
Count(st) == sumLevels(st, DOMAIN st)

\* LeafSet.Contains
Contains(st, number, hash) == number \in DOMAIN st /\ SeqContains(st[number], hash)

\* LeafSet.Revert: [st, panicked]. The loop removes every collected item
\* above bestNumber and panics when removeLeaf finds nothing to remove.
RECURSIVE revertLoop(_, _, _, _)
revertLoop(st, items, i, bestNumber) ==
    IF i > Len(items) THEN [st |-> st, panicked |-> FALSE]
    ELSE IF items[i].number > bestNumber
    THEN LET r == removeLeaf(st, items[i].number, items[i].hash)
         IN IF ~r.removed THEN [st |-> r.st, panicked |-> TRUE]
            ELSE revertLoop(r.st, items, i + 1, bestNumber)
    ELSE revertLoop(st, items, i + 1, bestNumber)

Revert(st, bestHash, bestNumber) ==
    LET l == revertLoop(st, reverseItems(st, DOMAIN st), 1, bestNumber)
        leavesContainBest == Contains(l.st, bestNumber, bestHash)
    IN IF l.panicked THEN l
       ELSE [st |-> IF ~leavesContainBest THEN insertLeaf(l.st, bestNumber, bestHash)
                    ELSE l.st,
             panicked |-> FALSE]

\* Undo.UndoImport on an ImportOutcome.
UndoImport(st, outcome) ==
    LET st1 == IF outcome.removed # <<>>
               THEN insertLeaf(st, outcome.inserted.number - 1, outcome.removed[1])
               ELSE st
    IN removeLeaf(st1, outcome.inserted.number, outcome.inserted.hash).st

\* Undo.UndoRemove on a RemoveOutcome.
UndoRemove(st, outcome) ==
    LET st1 == IF outcome.inserted # <<>>
               THEN removeLeaf(st, outcome.removed.number - 1, outcome.inserted[1]).st
               ELSE st
    IN insertLeaf(st1, outcome.removed.number, outcome.removed.hash)

\* Undo.UndoFinalization on a FinalizationOutcome.
UndoFinalization(st, outcome) ==
    [n \in DOMAIN st \cup DOMAIN outcome.removed |->
        IF n \in DOMAIN outcome.removed THEN outcome.removed[n] ELSE st[n]]

NoItem == [hash |-> "h1", number |-> 0]

\* ---- the leaf list in the database ----
\* The levels of the storage in the order of storage.Reverse and of an
\* ascending iteration, as numberHashes records.
RECURSIVE reverseLevels(_, _)
reverseLevels(st, keys) ==
    IF keys = {} THEN <<>>
    ELSE LET k == CHOOSE x \in keys : \A y \in keys : y <= x
         IN <<[Number |-> k, Hashes |-> st[k]]>> \o reverseLevels(st, keys \ {k})

RECURSIVE ascendLevels(_, _)
ascendLevels(st, keys) ==
    IF keys = {} THEN <<>>
    ELSE LET k == CHOOSE x \in keys : \A y \in keys : x <= y
         IN <<[Number |-> k, Hashes |-> st[k]]>> \o ascendLevels(st, keys \ {k})

\* scale.Marshal of []numberHashes: the length of the sequence, then for
\* every element its number, the length of its hashes and the hashes. The
\* result is a flat sequence of cells.
RECURSIVE ScaleMarshalLevels(_, _)
ScaleMarshalLevels(leaves, i) ==
    IF i > Len(leaves) THEN <<>>
    ELSE <<leaves[i].Number, Len(leaves[i].Hashes)>> \o leaves[i].Hashes
         \o ScaleMarshalLevels(leaves, i + 1)

ScaleMarshal(leaves) == <<Len(leaves)>> \o ScaleMarshalLevels(leaves, 1)

\* scale.Unmarshal into []numberHashes: count elements are read from
\* position pos on.
RECURSIVE ScaleUnmarshalLevels(_, _, _)
ScaleUnmarshalLevels(bytes, pos, count) ==
    IF count = 0 THEN <<>>
    ELSE LET n == bytes[pos + 1]
         IN <<[Number |-> bytes[pos], Hashes |-> SubSeq(bytes, pos + 2, pos + 1 + n)]>>
            \o ScaleUnmarshalLevels(bytes, pos + 2 + n, count - 1)

ScaleUnmarshal(bytes) == ScaleUnmarshalLevels(bytes, 2, bytes[1])

\* What db.Get returns for a key that was never written.
NilBytes == <<>>

\* PrepareTransaction writing the levels in ascending order.
PrepareTransactionAscending(st) == ScaleMarshal(ascendLevels(st, DOMAIN st))

\* PrepareTransaction: the value handed to tx.Set under (column, prefix).
PrepareTransaction(st) == ScaleMarshal(reverseLevels(st, DOMAIN st))

RECURSIVE setLevels(_, _, _)
setLevels(st, vals, i) ==
    IF i > Len(vals) THEN st
    ELSE setLevels(MapSet(st, vals[i].Number, vals[i].Hashes), vals, i + 1)

\* NewLeafSetFromDB on the value db.Get returns for (column, prefix).
NewLeafSetFromDB(leaves) ==
    IF leaves = NilBytes THEN EmptyMap
    ELSE setLevels(EmptyMap, ScaleUnmarshal(leaves), 1)

NoLsRet ==
    [op |-> "none", hash |-> "h1", number |-> 0, parentHash |-> <<>>,
     some |-> FALSE, inserted |-> NoItem, removed |-> <<>>,
     removedItem |-> NoItem, insertedParent |-> <<>>,
     removedMap |-> EmptyMap, panicked |-> FALSE]

\* ---- LeafSet actions ----
LsImport(hash, number, parentHash) ==
    LET r == LeafSetImport(storage, hash, number, parentHash)
    IN /\ Count(r.st) <= MaxLeaves
       /\ storage' = r.st
       /\ lsPre' = storage
       /\ lsRet' = [NoLsRet EXCEPT !.op = "Import", !.hash = hash, !.number = number,
                                   !.parentHash = <<parentHash>>, !.some = TRUE,
                                   !.inserted = r.inserted, !.removed = r.removed]
       /\ UNCHANGED <<ctVars, cvVars, tsVars, blocks>>

LsRemove(hash, number, parentHash) ==
    LET r == LeafSetRemove(storage, hash, number, parentHash)
    IN /\ storage' = r.st
       /\ lsPre' = storage
       /\ lsRet' = [NoLsRet EXCEPT !.op = "Remove", !.hash = hash, !.number = number,
                                   !.parentHash = parentHash, !.some = r.some,
                                   !.removedItem = r.removed,
                                   !.insertedParent = r.inserted]
       /\ UNCHANGED <<ctVars, cvVars, tsVars, blocks>>

LsFinalizeHeight(number) ==
    LET r == FinalizeHeight(storage, number)
    IN /\ storage' = r.st
       /\ lsPre' = storage
       /\ lsRet' = [NoLsRet EXCEPT !.op = "FinalizeHeight", !.number = number,
                                   !.some = TRUE, !.removedMap = r.removed]
       /\ UNCHANGED <<ctVars, cvVars, tsVars, blocks>>

\* DisplacedByFinalHeight reads the storage and leaves it as it is.
LsDisplacedByFinalHeight(number) ==
    /\ lsPre' = storage
    /\ lsRet' = [NoLsRet EXCEPT !.op = "DisplacedByFinalHeight", !.number = number,
                                !.some = TRUE,
                                !.removedMap = DisplacedByFinalHeight(storage, number)]
    /\ UNCHANGED <<storage, ctVars, cvVars, tsVars, blocks>>

LsRevert(bestHash, bestNumber) ==
    LET r == Revert(storage, bestHash, bestNumber)
    IN /\ Count(r.st) <= MaxLeaves
       /\ storage' = r.st
       /\ lsPre' = storage
       /\ lsRet' = [NoLsRet EXCEPT !.op = "Revert", !.hash = bestHash,
                                   !.number = bestNumber, !.panicked = r.panicked]
       /\ UNCHANGED <<ctVars, cvVars, tsVars, blocks>>

\* The undo calls take the outcome of the call made just before them.
LsUndoImport ==
    /\ lsRet.op = "Import"
    /\ storage' = UndoImport(storage, [inserted |-> lsRet.inserted,
                                       removed |-> lsRet.removed])
    /\ lsPre' = lsPre
    /\ lsRet' = [lsRet EXCEPT !.op = "UndoImport"]
    /\ UNCHANGED <<ctVars, cvVars, tsVars, blocks>>

LsUndoRemove ==
    /\ lsRet.op = "Remove"
    /\ lsRet.some
    /\ storage' = UndoRemove(storage, [inserted |-> lsRet.insertedParent,
                                       removed |-> lsRet.removedItem])
    /\ lsPre' = lsPre
    /\ lsRet' = [lsRet EXCEPT !.op = "UndoRemove"]
    /\ UNCHANGED <<ctVars, cvVars, tsVars, blocks>>

LsUndoFinalization ==
    /\ lsRet.op = "FinalizeHeight"
    /\ storage' = UndoFinalization(storage, [removed |-> lsRet.removedMap])
    /\ lsPre' = lsPre
    /\ lsRet' = [lsRet EXCEPT !.op = "UndoFinalization"]
    /\ UNCHANGED <<ctVars, cvVars, tsVars, blocks>>

\* ---- the LeafSet driven by a backend that holds a block tree ----
\* The callers import a block after its parent, remove a block that has no
\* child, pass parentHash to Remove only for the parent's last child, and
\* revert to a block they hold, dropping the blocks above it on its chain.
TreeBlocks == {"b0", "b1", "b2", "b3", "b4", "b5"}

BlockNumber ==
    [b \in TreeBlocks |->
        CASE b = "b0" -> 0
          [] b \in {"b1", "b2"} -> 1
          [] b \in {"b3", "b4"} -> 2
          [] b = "b5" -> 3]

BlockParent ==
    [b \in TreeBlocks |->
        CASE b = "b0" -> "b0"
          [] b \in {"b1", "b2"} -> "b0"
          [] b \in {"b3", "b4"} -> "b1"
          [] b = "b5" -> "b3"]

RECURSIVE BlockAncestors(_)
BlockAncestors(b) ==
    IF BlockNumber[b] = 0 THEN {}
    ELSE {BlockParent[b]} \cup BlockAncestors(BlockParent[b])

BlockChildren(held, b) ==
    {c \in held : BlockNumber[c] # 0 /\ BlockParent[c] = b}

BtImport(b) ==
    LET r == LeafSetImport(storage, b, BlockNumber[b], BlockParent[b])
    IN /\ b \notin blocks
       /\ BlockNumber[b] = 0 \/ BlockParent[b] \in blocks
       /\ storage' = r.st
       /\ blocks' = blocks \cup {b}
       /\ lsPre' = storage
       /\ lsRet' = [NoLsRet EXCEPT !.op = "Import", !.hash = b,
                                   !.number = BlockNumber[b],
                                   !.parentHash = <<BlockParent[b]>>, !.some = TRUE,
                                   !.inserted = r.inserted, !.removed = r.removed]
       /\ UNCHANGED <<ctVars, cvVars, tsVars>>

BtRemove(b, withParent) ==
    LET lastChild == BlockNumber[b] # 0 /\ BlockChildren(blocks, BlockParent[b]) = {b}
        parentHash == IF withParent THEN <<BlockParent[b]>> ELSE <<>>
        r == LeafSetRemove(storage, b, BlockNumber[b], parentHash)
    IN /\ b \in blocks
       /\ BlockChildren(blocks, b) = {}
       /\ withParent => lastChild
       /\ storage' = r.st
       /\ blocks' = IF r.some THEN blocks \ {b} ELSE blocks
       /\ lsPre' = storage
       /\ lsRet' = [NoLsRet EXCEPT !.op = "Remove", !.hash = b,
                                   !.number = BlockNumber[b],
                                   !.parentHash = parentHash, !.some = r.some,
                                   !.removedItem = r.removed,
                                   !.insertedParent = r.inserted]
       /\ UNCHANGED <<ctVars, cvVars, tsVars>>

BtFinalizeHeight(number) ==
    LET r == FinalizeHeight(storage, number)
    IN /\ storage' = r.st
       /\ lsPre' = storage
       /\ lsRet' = [NoLsRet EXCEPT !.op = "FinalizeHeight", !.number = number,
                                   !.some = TRUE, !.removedMap = r.removed]
       /\ UNCHANGED <<ctVars, cvVars, tsVars, blocks>>

BtRevert(b) ==
    LET r == Revert(storage, b, BlockNumber[b])
    IN /\ b \in blocks
       /\ storage' = r.st
       /\ blocks' = {x \in blocks : b \notin BlockAncestors(x)}
       /\ lsPre' = storage
       /\ lsRet' = [NoLsRet EXCEPT !.op = "Revert", !.hash = b,
                                   !.number = BlockNumber[b],
                                   !.panicked = r.panicked]
       /\ UNCHANGED <<ctVars, cvVars, tsVars>>

(***************************************************************************)
(* TrieState                                                               *)
(*                                                                         *)
(* Keys are byte strings, held as sequences of small numbers so that the   *)
(* lexicographic order and the prefix relation are computed as the code    *)
(* computes them. Values are non-empty byte strings; Nil is the nil slice. *)
(***************************************************************************)
Keys == {<<1, 1>>, <<1, 2>>}
Prefixes == {<<1>>, <<1, 2>>}
ChildKeys == {<<9>>}
ChildStorageKeys == {<<1, 1>>}
Values == {"1", "2"}
ChildValues == {"1"}
Nil == "nil"
\* A nil key ([]byte(nil)), as NextKey returns it.
NilKey == <<>>

\* Tries handed to NewTrieState.
InitialEntries == {EmptyMap, [k \in {<<1, 2>>} |-> "1"]}

\* Bound on the depth of nested transactions.
MaxDepth == 2

RECURSIVE KeyLess(_, _)
KeyLess(a, b) ==
    IF Len(a) = 0 THEN Len(b) > 0
    ELSE IF Len(b) = 0 THEN FALSE
    ELSE IF a[1] < b[1] THEN TRUE
    ELSE IF a[1] > b[1] THEN FALSE
    ELSE KeyLess(Tail(a), Tail(b))

HasPrefix(key, prefix) ==
    Len(prefix) <= Len(key) /\ SubSeq(key, 1, Len(prefix)) = prefix

\* The keys of a set as an ascending sequence.
RECURSIVE SortedSeq(_)
SortedSeq(S) ==
    IF S = {} THEN <<>>
    ELSE LET m == CHOOSE x \in S : \A y \in S : x = y \/ KeyLess(x, y)
         IN <<m>> \o SortedSeq(S \ {m})

\* sort.Strings on a slice (duplicates kept).
RECURSIVE SortStrings(_)
SortStrings(seq) ==
    IF Len(seq) = 0 THEN <<>>
    ELSE LET i == CHOOSE j \in 1..Len(seq) :
                      \A l \in 1..Len(seq) : seq[j] = seq[l] \/ KeyLess(seq[j], seq[l])
         IN <<seq[i]>> \o SortStrings(SubSeq(seq, 1, i - 1) \o SubSeq(seq, i + 1, Len(seq)))

\* slices.BinarySearch on an ascending slice: pos is the 0-based position of
\* the first element not below the target.
BinarySearch(keys, key) ==
    LET pos == Cardinality({j \in 1..Len(keys) : KeyLess(keys[j], key)})
    IN [pos |-> pos, found |-> pos < Len(keys) /\ keys[pos + 1] = key]

\* slices.DeleteFunc / removal of one 0-based position.
RemoveAt(keys, pos) == SubSeq(keys, 1, pos) \o SubSeq(keys, pos + 2, Len(keys))

insertSortedKey(keys, key) ==
    LET b == BinarySearch(keys, key)
    IN IF b.found THEN keys
       ELSE SubSeq(keys, 1, b.pos) \o <<key>> \o SubSeq(keys, b.pos + 1, Len(keys))

removeSortedKey(keys, key) ==
    LET b == BinarySearch(keys, key)
    IN IF b.found THEN RemoveAt(keys, b.pos) ELSE keys

RECURSIVE removePrefixedLoop(_, _, _, _)
removePrefixedLoop(keys, prefix, limit, amountDeleted) ==
    LET pos == BinarySearch(keys, prefix).pos
    IN IF pos >= Len(keys) THEN keys
       ELSE IF ~HasPrefix(keys[pos + 1], prefix) THEN keys
       ELSE IF limit > 0 /\ limit = amountDeleted + 1 THEN RemoveAt(keys, pos)
       ELSE removePrefixedLoop(RemoveAt(keys, pos), prefix, limit, amountDeleted + 1)

removePrefixedSortedKey(keys, prefix, limit) ==
    IF limit = 0 THEN keys ELSE removePrefixedLoop(keys, prefix, limit, 0)

\* ---- the trie (main trie and child tries) as maps ----
MapGet(m, key) == IF key \in DOMAIN m THEN m[key] ELSE Nil

EmptyTrie == [main |-> EmptyMap, children |-> EmptyMap]

TriePut(trie, key, value) == [trie EXCEPT !.main = MapSet(@, key, value)]
TrieGet(trie, key) == MapGet(trie.main, key)
TrieDelete(trie, key) == [trie EXCEPT !.main = MapDelete(@, key)]

\* Trie.NextKey: the smallest key above the given one, or NilKey.
TrieNextKey(trie, key) ==
    LET above == {k \in DOMAIN trie.main : KeyLess(key, k)}
    IN IF above = {} THEN NilKey ELSE SortedSeq(above)[1]

TrieClearPrefix(trie, prefix) ==
    [trie EXCEPT !.main = [k \in {x \in DOMAIN @ : ~HasPrefix(x, prefix)} |-> @[k]]]

\* Trie.ClearPrefixLimit: [trie, deleted, allDeleted]; the first limit keys
\* with the prefix, in ascending order, are removed.
TrieClearPrefixLimit(trie, prefix, limit) ==
    LET matching == SortedSeq({x \in DOMAIN trie.main : HasPrefix(x, prefix)})
        n == IF limit < Len(matching) THEN limit ELSE Len(matching)
        gone == {matching[j] : j \in 1..n}
    IN [trie |-> [trie EXCEPT !.main = [k \in DOMAIN @ \ gone |-> @[k]]],
        deleted |-> n,
        allDeleted |-> n = Len(matching)]

TrieHasChild(trie, keyToChild) == keyToChild \in DOMAIN trie.children

TriePutIntoChild(trie, keyToChild, key, value) ==
    LET child == IF TrieHasChild(trie, keyToChild) THEN trie.children[keyToChild]
                 ELSE EmptyMap
    IN [trie EXCEPT !.children = MapSet(@, keyToChild, MapSet(child, key, value))]

TrieClearFromChild(trie, keyToChild, key) ==
    IF TrieHasChild(trie, keyToChild)
    THEN [trie EXCEPT !.children[keyToChild] = MapDelete(@, key)]
    ELSE trie

TrieDeleteChild(trie, keyToChild) ==
    [trie EXCEPT !.children = MapDelete(@, keyToChild)]

\* ---- storageDiff ----
newStorageDiff ==
    [upserts |-> EmptyMap, deletes |-> {}, sortedKeys |-> <<>>,
     childChangeSet |-> EmptyMap]

\* storageDiff.snapshot: a copy that shares nothing with the original.
snapshot(cs) == cs

\* storageDiff.get: [val, deleted].
diffGet(cs, key) ==
    IF key \in cs.deletes THEN [val |-> Nil, deleted |-> TRUE]
    ELSE IF key \in DOMAIN cs.upserts THEN [val |-> cs.upserts[key], deleted |-> FALSE]
    ELSE [val |-> Nil, deleted |-> FALSE]

upsert(cs, key, value) ==
    [cs EXCEPT !.deletes = @ \ {key},
               !.upserts = MapSet(@, key, value),
               !.sortedKeys = insertSortedKey(@, key)]

\* storageDiff.delete; deleting the key of a child trie drops its pending
\* changes and schedules the child trie for destruction.
diffDelete(cs, key) ==
    [cs EXCEPT !.childChangeSet = MapDelete(@, key),
               !.upserts = MapDelete(@, key),
               !.deletes = @ \cup {key},
               !.sortedKeys = removeSortedKey(@, key)]

\* The keys visible through a diff laid over the committed keys.
mergedKeys(cs, trieKeys) ==
    ({trieKeys[j] : j \in 1..Len(trieKeys)} \ cs.deletes) \cup DOMAIN cs.upserts

RECURSIVE deleteAll(_, _, _)
deleteAll(cs, keys, n) ==
    IF n = 0 THEN cs ELSE deleteAll(diffDelete(cs, keys[n]), keys, n - 1)

\* storageDiff.clearPrefix: [cs, deleted, allDeleted]; limit -1 is no limit.
clearPrefix(cs, prefix, trieKeys, limit) ==
    LET matching == SortedSeq({k \in mergedKeys(cs, trieKeys) : HasPrefix(k, prefix)})
        n == IF limit >= 0 /\ limit < Len(matching) THEN limit ELSE Len(matching)
    IN [cs |-> deleteAll(cs, matching, n),
        deleted |-> n,
        allDeleted |-> n = Len(matching)]

childDiff(cs, keyToChild) ==
    IF keyToChild \in DOMAIN cs.childChangeSet THEN cs.childChangeSet[keyToChild]
    ELSE newStorageDiff

upsertChild(cs, keyToChild, key, value) ==
    [cs EXCEPT !.deletes = @ \ {keyToChild},
               !.childChangeSet =
                   MapSet(@, keyToChild, upsert(childDiff(cs, keyToChild), key, value))]

deleteFromChild(cs, keyToChild, key) ==
    [cs EXCEPT !.childChangeSet =
                   MapSet(@, keyToChild, diffDelete(childDiff(cs, keyToChild), key))]

getFromChild(cs, keyToChild, key) ==
    IF keyToChild \in cs.deletes THEN [val |-> Nil, deleted |-> TRUE]
    ELSE IF keyToChild \in DOMAIN cs.childChangeSet
    THEN diffGet(cs.childChangeSet[keyToChild], key)
    ELSE [val |-> Nil, deleted |-> FALSE]

\* Folds over the entries of a diff when it is applied to the trie.
RECURSIVE applyUpserts(_, _, _)
applyUpserts(trie, ups, keys) ==
    IF keys = {} THEN trie
    ELSE LET k == CHOOSE x \in keys : TRUE
         IN applyUpserts(TriePut(trie, k, ups[k]), ups, keys \ {k})

RECURSIVE applyChildUpserts(_, _, _, _)
applyChildUpserts(trie, keyToChild, ups, keys) ==
    IF keys = {} THEN trie
    ELSE LET k == CHOOSE x \in keys : TRUE
         IN applyChildUpserts(TriePutIntoChild(trie, keyToChild, k, ups[k]),
                              keyToChild, ups, keys \ {k})

RECURSIVE applyChildDeletes(_, _, _)
applyChildDeletes(trie, keyToChild, keys) ==
    IF keys = {} THEN trie
    ELSE LET k == CHOOSE x \in keys : TRUE
         IN applyChildDeletes(TrieClearFromChild(trie, keyToChild, k),
                              keyToChild, keys \ {k})

RECURSIVE applyChildren(_, _, _)
applyChildren(trie, ccs, childKeys) ==
    IF childKeys = {} THEN trie
    ELSE LET c == CHOOSE x \in childKeys : TRUE
             t1 == applyChildUpserts(trie, c, ccs[c].upserts, DOMAIN ccs[c].upserts)
             t2 == applyChildDeletes(t1, c, ccs[c].deletes)
         IN applyChildren(t2, ccs, childKeys \ {c})

RECURSIVE applyDeletes(_, _)
applyDeletes(trie, keys) ==
    IF keys = {} THEN trie
    ELSE LET k == CHOOSE x \in keys : TRUE
         IN applyDeletes(TrieDelete(TrieDeleteChild(trie, k), k), keys \ {k})

\* storageDiff.applyToTrie
applyToTrie(cs, trie) ==
    LET t1 == applyUpserts(trie, cs.upserts, DOMAIN cs.upserts)
        t2 == applyChildren(t1, cs.childChangeSet, DOMAIN cs.childChangeSet)
    IN applyDeletes(t2, cs.deletes)

\* ---- TrieState ----
NewTrieState(initialState) ==
    [state |-> initialState, transactions |-> <<>>, sortedKeys |-> <<>>,
     childSortedKeys |-> EmptyMap]

\* getCurrentTransaction is nil when the list is empty.
hasCurrentTransaction(t) == Len(t.transactions) > 0
getCurrentTransaction(t) == Last(t.transactions)
setCurrentTransaction(t, cs) ==
    [t EXCEPT !.transactions[Len(t.transactions)] = cs]

childSorted(t, keyToChild) ==
    IF keyToChild \in DOMAIN t.childSortedKeys THEN t.childSortedKeys[keyToChild]
    ELSE <<>>

addMainTrieSortedKey(t, key) ==
    [t EXCEPT !.sortedKeys = insertSortedKey(@, key)]

removeMainTrieSortedKey(t, key) ==
    [t EXCEPT !.sortedKeys = removeSortedKey(@, key)]

addChildTrieSortedKey(t, keyToChild, key) ==
    [t EXCEPT !.childSortedKeys =
                  MapSet(@, keyToChild, insertSortedKey(childSorted(t, keyToChild), key))]

removeChildTrieSortedKey(t, keyToChild, key) ==
    [t EXCEPT !.childSortedKeys =
                  MapSet(@, keyToChild, removeSortedKey(childSorted(t, keyToChild), key))]

StartTransaction(t) ==
    LET nextChangeSet == IF hasCurrentTransaction(t) THEN getCurrentTransaction(t)
                         ELSE newStorageDiff
    IN [t EXCEPT !.transactions = Append(@, snapshot(nextChangeSet))]

\* RollbackTransaction with the innermost diff merged into its parent
\* instead of being discarded.
RollbackTransactionKeepsChanges(t) ==
    IF Len(t.transactions) > 1
    THEN [t EXCEPT !.transactions = Append(SubSeq(@, 1, Len(@) - 2), Last(@))]
    ELSE [t EXCEPT !.transactions = Front(@)]

\* RollbackTransaction (the stack is not empty).
RollbackTransaction(t) == [t EXCEPT !.transactions = Front(@)]

\* The mirror updates of CommitTransaction, one loop each.
RECURSIVE addMainKeys(_, _, _)
addMainKeys(t, keys, i) ==
    IF i > Len(keys) THEN t
    ELSE addMainKeys(addMainTrieSortedKey(t, keys[i]), keys, i + 1)

RECURSIVE removeMainKeys(_, _)
removeMainKeys(t, keys) ==
    IF keys = {} THEN t
    ELSE LET k == CHOOSE x \in keys : TRUE
         IN removeMainKeys(removeMainTrieSortedKey(t, k), keys \ {k})

RECURSIVE addChildKeys(_, _, _, _)
addChildKeys(t, keyToChild, keys, i) ==
    IF i > Len(keys) THEN t
    ELSE addChildKeys(addChildTrieSortedKey(t, keyToChild, keys[i]), keyToChild, keys, i + 1)

RECURSIVE removeChildKeys(_, _, _)
removeChildKeys(t, keyToChild, keys) ==
    IF keys = {} THEN t
    ELSE LET k == CHOOSE x \in keys : TRUE
         IN removeChildKeys(removeChildTrieSortedKey(t, keyToChild, k),
                            keyToChild, keys \ {k})

RECURSIVE commitChildKeys(_, _, _)
commitChildKeys(t, ccs, childKeys) ==
    IF childKeys = {} THEN t
    ELSE LET c == CHOOSE x \in childKeys : TRUE
             t1 == addChildKeys(t, c, ccs[c].sortedKeys, 1)
             t2 == removeChildKeys(t1, c, ccs[c].deletes)
         IN commitChildKeys(t2, ccs, childKeys \ {c})

\* CommitTransaction (the stack is not empty).
CommitTransaction(t) ==
    IF Len(t.transactions) > 1
    THEN [t EXCEPT !.transactions = Append(SubSeq(@, 1, Len(@) - 2), Last(@))]
    ELSE LET tx == Last(t.transactions)
             t0 == [t EXCEPT !.transactions = Front(@),
                             !.state = applyToTrie(tx, @)]
             t1 == addMainKeys(t0, tx.sortedKeys, 1)
             t2 == removeMainKeys(t1, tx.deletes)
         IN commitChildKeys(t2, tx.childChangeSet, DOMAIN tx.childChangeSet)

\* Put writing to the committed trie even while a transaction is open.
PutPastTransaction(t, key, value) ==
    addMainTrieSortedKey([t EXCEPT !.state = TriePut(@, key, value)], key)

Put(t, key, value) ==
    IF hasCurrentTransaction(t)
    THEN setCurrentTransaction(t, upsert(getCurrentTransaction(t), key, value))
    ELSE addMainTrieSortedKey([t EXCEPT !.state = TriePut(@, key, value)], key)

Get(t, key) ==
    LET r == diffGet(getCurrentTransaction(t), key)
    IN IF hasCurrentTransaction(t) /\ (r.val # Nil \/ r.deleted)
       THEN r.val
       ELSE TrieGet(t.state, key)

Has(t, key) == Get(t, key) # Nil

\* Root answering with the hash of the committed trie whatever the stack holds.
RootIgnoresTransactions(t) == [err |-> "none"]

\* Root and MustRoot: [err]; both panic while a transaction is open and
\* otherwise hash the committed trie (the hash value is not modelled).
Root(t) == [err |-> IF hasCurrentTransaction(t) THEN "panic" ELSE "none"]

Delete(t, key) ==
    IF hasCurrentTransaction(t)
    THEN setCurrentTransaction(t, diffDelete(getCurrentTransaction(t), key))
    ELSE removeMainTrieSortedKey([t EXCEPT !.state = TrieDelete(@, key)], key)

NextKey(t, key) ==
    IF hasCurrentTransaction(t)
    THEN LET currentTx == getCurrentTransaction(t)
             mainStateSortedKeys ==
                 SelectSeq(t.sortedKeys, LAMBDA x : x \notin currentTx.deletes)
             allSortedKeys == SortStrings(mainStateSortedKeys \o currentTx.sortedKeys)
             b == BinarySearch(allSortedKeys, key)
             pos == IF b.found THEN b.pos + 1 ELSE b.pos
         IN IF pos < Len(allSortedKeys) THEN allSortedKeys[pos + 1] ELSE NilKey
    ELSE TrieNextKey(t.state, key)

ClearPrefix(t, prefix) ==
    IF hasCurrentTransaction(t)
    THEN setCurrentTransaction(t,
             clearPrefix(getCurrentTransaction(t), prefix, t.sortedKeys, -1).cs)
    ELSE [t EXCEPT !.state = TrieClearPrefix(@, prefix),
                   !.sortedKeys = removePrefixedSortedKey(@, prefix, -1)]

\* ClearPrefixLimit: [t, deleted, allDeleted].
ClearPrefixLimit(t, prefix, limit) ==
    IF hasCurrentTransaction(t)
    THEN LET r == clearPrefix(getCurrentTransaction(t), prefix, t.sortedKeys, limit)
         IN [t |-> setCurrentTransaction(t, r.cs),
             deleted |-> r.deleted, allDeleted |-> r.allDeleted]
    ELSE LET r == TrieClearPrefixLimit(t.state, prefix, limit)
         IN [t |-> [t EXCEPT !.state = r.trie,
                             !.sortedKeys = removePrefixedSortedKey(@, prefix, limit)],
             deleted |-> r.deleted, allDeleted |-> r.allDeleted]

SetChildStorage(t, keyToChild, key, value) ==
    IF hasCurrentTransaction(t)
    THEN setCurrentTransaction(t,
             upsertChild(getCurrentTransaction(t), keyToChild, key, value))
    ELSE addChildTrieSortedKey(
             [t EXCEPT !.state = TriePutIntoChild(@, keyToChild, key, value)],
             keyToChild, key)

\* GetChildStorage: [val, err].
GetChildStorage(t, keyToChild, key) ==
    LET r == getFromChild(getCurrentTransaction(t), keyToChild, key)
    IN IF hasCurrentTransaction(t) /\ (r.val # Nil \/ r.deleted)
       THEN [val |-> r.val, err |-> "none"]
       ELSE IF ~TrieHasChild(t.state, keyToChild)
       THEN [val |-> Nil, err |-> "ChildTrieDoesNotExist"]
       ELSE [val |-> MapGet(t.state.children[keyToChild], key), err |-> "none"]

\* GetChildNextKey: [key, err].
GetChildNextKey(t, keyToChild, key) ==
    LET currentTx == getCurrentTransaction(t)
    IN IF hasCurrentTransaction(t) /\ keyToChild \in currentTx.deletes
       THEN [key |-> NilKey, err |-> "ChildTrieDoesNotExist"]
       ELSE IF hasCurrentTransaction(t) /\ keyToChild \in DOMAIN currentTx.childChangeSet
       THEN LET childChanges == currentTx.childChangeSet[keyToChild]
                childTrieSortedKeys ==
                    SelectSeq(childSorted(t, keyToChild),
                              LAMBDA x : x \notin childChanges.deletes)
                allSortedKeys == SortStrings(childTrieSortedKeys \o childChanges.sortedKeys)
                b == BinarySearch(allSortedKeys, key)
                pos == IF b.found THEN b.pos + 1 ELSE b.pos
            IN [key |-> IF pos < Len(allSortedKeys) THEN allSortedKeys[pos + 1] ELSE NilKey,
                err |-> "none"]
       ELSE IF ~TrieHasChild(t.state, keyToChild)
       THEN [key |-> NilKey, err |-> "ChildTrieDoesNotExist"]
       ELSE [key |-> TrieNextKey([main |-> t.state.children[keyToChild]], key),
             err |-> "none"]

\* DeleteChild that reports success and leaves the child trie in place.
DeleteChildKeepsChild(t, keyToChild) == [t |-> t, err |-> "none"]

\* DeleteChild: [t, err].
DeleteChild(t, keyToChild) ==
    IF hasCurrentTransaction(t)
    THEN [t |-> setCurrentTransaction(t, diffDelete(getCurrentTransaction(t), keyToChild)),
          err |-> "none"]
    ELSE IF ~TrieHasChild(t.state, keyToChild)
    THEN [t |-> t, err |-> "ChildTrieDoesNotExist"]
    ELSE [t |-> [t EXCEPT !.state = TrieDeleteChild(@, keyToChild),
                          !.childSortedKeys = MapDelete(@, keyToChild)],
          err |-> "none"]

\* ClearChildStorage: [t, err].
ClearChildStorage(t, keyToChild, key) ==
    IF hasCurrentTransaction(t)
    THEN [t |-> setCurrentTransaction(t,
                    deleteFromChild(getCurrentTransaction(t), keyToChild, key)),
          err |-> "none"]
    ELSE IF ~TrieHasChild(t.state, keyToChild)
    THEN [t |-> t, err |-> "ChildTrieDoesNotExist"]
    ELSE [t |-> removeChildTrieSortedKey(
                    [t EXCEPT !.state = TrieClearFromChild(@, keyToChild, key)],
                    keyToChild, key),
          err |-> "none"]

\* storageDiff.clearPrefixInChild: [cs, deleted, allDeleted]; clearPrefix on
\* the diff of the child, over the committed keys of the child.
clearPrefixInChild(cs, keyToChild, prefix, childKeys, limit) ==
    LET r == clearPrefix(childDiff(cs, keyToChild), prefix, childKeys, limit)
    IN [cs |-> [cs EXCEPT !.childChangeSet = MapSet(@, keyToChild, r.cs)],
        deleted |-> r.deleted, allDeleted |-> r.allDeleted]

\* storageDiff.deleteChildLimit: [cs, deleted, allDeleted]; without a limit
\* (-1) the child trie is scheduled for destruction, with one the smallest
\* keys of the merged view of the child are deleted in its diff.
deleteChildLimit(cs, keyToChild, childKeys, limit) ==
    IF limit = -1
    THEN [cs |-> diffDelete(cs, keyToChild),
          deleted |-> Cardinality(mergedKeys(childDiff(cs, keyToChild), childKeys)),
          allDeleted |-> TRUE]
    ELSE clearPrefixInChild(cs, keyToChild, <<>>, childKeys, limit)

\* The committed child trie (child.Entries()); empty when there is none.
childEntries(t, keyToChild) ==
    IF TrieHasChild(t.state, keyToChild) THEN t.state.children[keyToChild] ELSE EmptyMap

\* ClearPrefixInChild: [t, err].
ClearPrefixInChild(t, keyToChild, prefix) ==
    IF hasCurrentTransaction(t)
    THEN [t |-> setCurrentTransaction(t,
                    clearPrefixInChild(getCurrentTransaction(t), keyToChild, prefix,
                                       childSorted(t, keyToChild), -1).cs),
          err |-> "none"]
    ELSE IF ~TrieHasChild(t.state, keyToChild)
    THEN [t |-> t, err |-> "ChildTrieDoesNotExist"]
    ELSE [t |-> [t EXCEPT !.state.children[keyToChild] =
                              TrieClearPrefix([main |-> @], prefix).main,
                          !.childSortedKeys =
                              MapSet(@, keyToChild,
                                     removePrefixedSortedKey(childSorted(t, keyToChild),
                                                             prefix, -1))],
          err |-> "none"]

\* ClearPrefixInChildWithLimit: [t, deleted, allDeleted, err]. The mirror is
\* cut with limit -1 whatever the limit given to the trie.
ClearPrefixInChildWithLimit(t, keyToChild, prefix, limit) ==
    IF hasCurrentTransaction(t)
    THEN LET r == clearPrefixInChild(getCurrentTransaction(t), keyToChild, prefix,
                                     childSorted(t, keyToChild), limit)
         IN [t |-> setCurrentTransaction(t, r.cs),
             deleted |-> r.deleted, allDeleted |-> r.allDeleted, err |-> "none"]
    ELSE IF ~TrieHasChild(t.state, keyToChild)
    THEN [t |-> t, deleted |-> 0, allDeleted |-> FALSE, err |-> "ChildTrieDoesNotExist"]
    ELSE LET r == TrieClearPrefixLimit([main |-> t.state.children[keyToChild]],
                                       prefix, limit)
         IN [t |-> [t EXCEPT !.state.children[keyToChild] = r.trie.main,
                             !.childSortedKeys =
                                 MapSet(@, keyToChild,
                                        removePrefixedSortedKey(childSorted(t, keyToChild),
                                                                prefix, -1))],
             deleted |-> r.deleted, allDeleted |-> r.allDeleted, err |-> "none"]

\* The loop of DeleteChildLimit over the sorted keys of the child trie:
\* [t, deleted]; it stops when deleted equals the limit after a deletion.
RECURSIVE deleteChildLoop(_, _, _, _, _, _)
deleteChildLoop(t, keyToChild, keys, i, deleted, limitUint) ==
    IF i > Len(keys) THEN [t |-> t, deleted |-> deleted]
    ELSE LET t1 == removeChildTrieSortedKey(
                       [t EXCEPT !.state = TrieClearFromChild(@, keyToChild, keys[i])],
                       keyToChild, keys[i])
         IN IF deleted + 1 = limitUint THEN [t |-> t1, deleted |-> deleted + 1]
            ELSE deleteChildLoop(t1, keyToChild, keys, i + 1, deleted + 1, limitUint)

\* DeleteChildLimit: [t, deleted, allDeleted, err]; limit -1 is the nil limit.
DeleteChildLimit(t, keyToChild, limit) ==
    IF hasCurrentTransaction(t)
    THEN IF ~TrieHasChild(t.state, keyToChild)
            /\ keyToChild \notin DOMAIN getCurrentTransaction(t).childChangeSet
         THEN [t |-> t, deleted |-> 0, allDeleted |-> FALSE,
               err |-> "ChildTrieDoesNotExist"]
         ELSE LET r == deleteChildLimit(getCurrentTransaction(t), keyToChild,
                                        SortedSeq(DOMAIN childEntries(t, keyToChild)),
                                        limit)
              IN [t |-> setCurrentTransaction(t, r.cs),
                  deleted |-> r.deleted, allDeleted |-> r.allDeleted, err |-> "none"]
    ELSE IF ~TrieHasChild(t.state, keyToChild)
    THEN [t |-> t, deleted |-> 0, allDeleted |-> FALSE, err |-> "ChildTrieDoesNotExist"]
    ELSE IF limit = -1
    THEN [t |-> [t EXCEPT !.state = TrieDeleteChild(@, keyToChild),
                          !.childSortedKeys = MapDelete(@, keyToChild)],
          deleted |-> Cardinality(DOMAIN childEntries(t, keyToChild)),
          allDeleted |-> TRUE, err |-> "none"]
    ELSE LET keys == SortedSeq(DOMAIN childEntries(t, keyToChild))
             r == deleteChildLoop(t, keyToChild, keys, 1, 0, limit)
         IN [t |-> r.t, deleted |-> r.deleted, allDeleted |-> r.deleted = Len(keys),
             err |-> "none"]

\* GetKeysWithPrefixFromChild: [keys, err], the keys as a set (maps.Keys
\* gives them in no fixed order). With pending changes for the child, the
\* upserts of the diff are copied and then replaced by the entries of the
\* committed child trie when there is one.
GetKeysWithPrefixFromChild(t, keyToChild, prefix) ==
    LET currentTx == getCurrentTransaction(t)
    IN IF hasCurrentTransaction(t) /\ keyToChild \in currentTx.deletes
       THEN [keys |-> {}, err |-> "ChildTrieDoesNotExist"]
       ELSE IF hasCurrentTransaction(t) /\ keyToChild \in DOMAIN currentTx.childChangeSet
       THEN LET upserts == currentTx.childChangeSet[keyToChild].upserts
                allEntries == IF TrieHasChild(t.state, keyToChild)
                              THEN childEntries(t, keyToChild)
                              ELSE upserts
            IN IF ~TrieHasChild(t.state, keyToChild) /\ DOMAIN upserts = {}
               THEN [keys |-> {}, err |-> "ChildTrieDoesNotExist"]
               ELSE [keys |-> {k \in DOMAIN allEntries : HasPrefix(k, prefix)},
                     err |-> "none"]
       ELSE IF ~TrieHasChild(t.state, keyToChild)
       THEN [keys |-> {}, err |-> "ChildTrieDoesNotExist"]
       ELSE [keys |-> {k \in DOMAIN childEntries(t, keyToChild) : HasPrefix(k, prefix)},
             err |-> "none"]

\* The writes a caller may make, as records; ApplyWrite dispatches one to
\* the TrieState method it names and returns [t, err, deleted, allDeleted].
Limits == {0, 1}

Writes ==
    {[op |-> "Put", key |-> k, value |-> v] : k \in Keys, v \in Values}
    \cup {[op |-> "Delete", key |-> k] : k \in Keys}
    \cup {[op |-> "ClearPrefix", prefix |-> p] : p \in Prefixes}
    \cup {[op |-> "ClearPrefixLimit", prefix |-> p, limit |-> l] :
              p \in Prefixes, l \in Limits}
    \cup {[op |-> "SetChildStorage", keyToChild |-> c, key |-> k, value |-> v] :
              c \in ChildKeys, k \in ChildStorageKeys, v \in ChildValues}
    \cup {[op |-> "ClearChildStorage", keyToChild |-> c, key |-> k] :
              c \in ChildKeys, k \in ChildStorageKeys}
    \cup {[op |-> "DeleteChild", keyToChild |-> c] : c \in ChildKeys}

\* The writes into one child trie with two keys under a common prefix; the
\* limit of DeleteChildLimit may be absent (NilLimit).
ChildTrieKeys == {<<1, 1>>, <<1, 2>>}
ChildPrefixes == {<<1>>, <<1, 2>>}
NilLimit == -1

ChildWrites ==
    {[op |-> "SetChildStorage", keyToChild |-> c, key |-> k, value |-> v] :
         c \in ChildKeys, k \in ChildTrieKeys, v \in ChildValues}
    \cup {[op |-> "ClearChildStorage", keyToChild |-> c, key |-> k] :
              c \in ChildKeys, k \in ChildTrieKeys}
    \cup {[op |-> "DeleteChild", keyToChild |-> c] : c \in ChildKeys}
    \cup {[op |-> "ClearPrefixInChild", keyToChild |-> c, prefix |-> p] :
              c \in ChildKeys, p \in ChildPrefixes}
    \cup {[op |-> "ClearPrefixInChildWithLimit", keyToChild |-> c, prefix |-> p,
           limit |-> l] : c \in ChildKeys, p \in ChildPrefixes, l \in Limits}
    \cup {[op |-> "DeleteChildLimit", keyToChild |-> c, limit |-> l] :
              c \in ChildKeys, l \in Limits \cup {NilLimit}}

WriteResult(t, err, deleted, allDeleted) ==
    [t |-> t, err |-> err, deleted |-> deleted, allDeleted |-> allDeleted]

ApplyWrite(t, w) ==
    CASE w.op = "Put" -> WriteResult(Put(t, w.key, w.value), "none", 0, FALSE)
      [] w.op = "Delete" -> WriteResult(Delete(t, w.key), "none", 0, FALSE)
      [] w.op = "ClearPrefix" -> WriteResult(ClearPrefix(t, w.prefix), "none", 0, FALSE)
      [] w.op = "ClearPrefixLimit" ->
            LET r == ClearPrefixLimit(t, w.prefix, w.limit)
            IN WriteResult(r.t, "none", r.deleted, r.allDeleted)
      [] w.op = "SetChildStorage" ->
            WriteResult(SetChildStorage(t, w.keyToChild, w.key, w.value), "none", 0, FALSE)
      [] w.op = "ClearChildStorage" ->
            LET r == ClearChildStorage(t, w.keyToChild, w.key)
            IN WriteResult(r.t, r.err, 0, FALSE)
      [] w.op = "DeleteChild" ->
            LET r == DeleteChild(t, w.keyToChild)
            IN WriteResult(r.t, r.err, 0, FALSE)

\* The same dispatch for the writes into a child trie (ChildWrites).
ApplyChildWrite(t, w) ==
    CASE w.op = "SetChildStorage" ->
            WriteResult(SetChildStorage(t, w.keyToChild, w.key, w.value), "none", 0, FALSE)
      [] w.op = "ClearChildStorage" ->
            LET r == ClearChildStorage(t, w.keyToChild, w.key)
            IN WriteResult(r.t, r.err, 0, FALSE)
      [] w.op = "DeleteChild" ->
            LET r == DeleteChild(t, w.keyToChild)
            IN WriteResult(r.t, r.err, 0, FALSE)
      [] w.op = "ClearPrefixInChild" ->
            LET r == ClearPrefixInChild(t, w.keyToChild, w.prefix)
            IN WriteResult(r.t, r.err, 0, FALSE)
      [] w.op = "ClearPrefixInChildWithLimit" ->
            LET r == ClearPrefixInChildWithLimit(t, w.keyToChild, w.prefix, w.limit)
            IN WriteResult(r.t, r.err, r.deleted, r.allDeleted)
      [] w.op = "DeleteChildLimit" ->
            LET r == DeleteChildLimit(t, w.keyToChild, w.limit)
            IN WriteResult(r.t, r.err, r.deleted, r.allDeleted)

\* What Get returns for every key.
GetView(t) == [k \in Keys \cup ChildKeys |-> Get(t, k)]

NoView == [k \in Keys \cup ChildKeys |-> Nil]

NoTsRet == [op |-> "none", err |-> "none", view |-> NoView, changed |-> FALSE]

\* ---- TrieState actions ----
TsWrite(w) ==
    LET r == ApplyWrite(ts, w)
    IN /\ ts' = r.t
       /\ tsRet' = [NoTsRet EXCEPT !.op = "Write", !.err = r.err]
       /\ UNCHANGED <<tsViews, ref, ctVars, cvVars, lsVars, lkVars>>

TsPut == \E w \in Writes : w.op = "Put" /\ TsWrite(w)
TsDelete == \E w \in Writes : w.op = "Delete" /\ TsWrite(w)
TsClearPrefix == \E w \in Writes : w.op = "ClearPrefix" /\ TsWrite(w)
TsClearPrefixLimit == \E w \in Writes : w.op = "ClearPrefixLimit" /\ TsWrite(w)
TsSetChildStorage == \E w \in Writes : w.op = "SetChildStorage" /\ TsWrite(w)
TsClearChildStorage == \E w \in Writes : w.op = "ClearChildStorage" /\ TsWrite(w)
TsDeleteChild == \E w \in Writes : w.op = "DeleteChild" /\ TsWrite(w)

\* A write into the child trie: each action calls its method of TrieState.
CsWrite(r) ==
    /\ ts' = r.t
    /\ tsRet' = [NoTsRet EXCEPT !.op = "Write", !.err = r.err]
    /\ UNCHANGED <<tsViews, ref, ctVars, cvVars, lsVars, lkVars>>

CsSetChildStorage ==
    \E w \in ChildWrites :
        /\ w.op = "SetChildStorage"
        /\ CsWrite([t |-> SetChildStorage(ts, w.keyToChild, w.key, w.value),
                    err |-> "none"])

CsClearChildStorage ==
    \E w \in ChildWrites :
        /\ w.op = "ClearChildStorage"
        /\ CsWrite(ClearChildStorage(ts, w.keyToChild, w.key))

CsDeleteChild ==
    \E w \in ChildWrites :
        w.op = "DeleteChild" /\ CsWrite(DeleteChild(ts, w.keyToChild))

CsClearPrefixInChild ==
    \E w \in ChildWrites :
        /\ w.op = "ClearPrefixInChild"
        /\ CsWrite(ClearPrefixInChild(ts, w.keyToChild, w.prefix))

CsClearPrefixInChildWithLimit ==
    \E w \in ChildWrites :
        /\ w.op = "ClearPrefixInChildWithLimit"
        /\ CsWrite(ClearPrefixInChildWithLimit(ts, w.keyToChild, w.prefix, w.limit))

CsDeleteChildLimit ==
    \E w \in ChildWrites :
        /\ w.op = "DeleteChildLimit"
        /\ CsWrite(DeleteChildLimit(ts, w.keyToChild, w.limit))

TsStartTransaction ==
    /\ Len(ts.transactions) < MaxDepth
    /\ ts' = StartTransaction(ts)
    /\ tsViews' = Append(tsViews, GetView(ts))
    /\ tsRet' = [NoTsRet EXCEPT !.op = "StartTransaction"]
    /\ UNCHANGED <<ref, ctVars, cvVars, lsVars, lkVars>>

\* Commit and rollback panic on an empty stack and leave the object as it is.
TsCommitTransaction ==
    /\ IF Len(ts.transactions) = 0
       THEN /\ tsRet' = [NoTsRet EXCEPT !.op = "CommitTransaction", !.err = "panic"]
            /\ UNCHANGED <<ts, tsViews>>
       ELSE /\ ts' = CommitTransaction(ts)
            /\ tsViews' = Front(tsViews)
            /\ tsRet' = [NoTsRet EXCEPT !.op = "CommitTransaction"]
    /\ UNCHANGED <<ref, ctVars, cvVars, lsVars, lkVars>>

TsRollbackTransaction ==
    /\ IF Len(ts.transactions) = 0
       THEN /\ tsRet' = [NoTsRet EXCEPT !.op = "RollbackTransaction", !.err = "panic"]
            /\ UNCHANGED <<ts, tsViews>>
       ELSE /\ ts' = RollbackTransaction(ts)
            /\ tsViews' = Front(tsViews)
            /\ tsRet' = [NoTsRet EXCEPT !.op = "RollbackTransaction",
                                        !.view = Last(tsViews),
                                        !.changed = (GetView(ts) # Last(tsViews))]
    /\ UNCHANGED <<ref, ctVars, cvVars, lsVars, lkVars>>

\* Root and MustRoot read and leave the object as it is.
TsRoot ==
    /\ tsRet' = [NoTsRet EXCEPT !.op = "Root", !.err = Root(ts).err]
    /\ UNCHANGED <<ts, tsViews, ref, ctVars, cvVars, lsVars, lkVars>>

\* ---- a transaction committed beside the same writes made directly ----
\* ref is a copy of the object taken at StartTransaction; every write of the
\* transaction is also made on ref, which has no transaction open.
EqDirect ==
    /\ Len(ts.transactions) = 0
    /\ \E w \in Writes :
          /\ ts' = ApplyWrite(ts, w).t
          /\ ref' = ts'
          /\ tsRet' = [NoTsRet EXCEPT !.op = "Write"]
    /\ UNCHANGED <<tsViews, ctVars, cvVars, lsVars, lkVars>>

EqStart ==
    /\ Len(ts.transactions) = 0
    /\ ts' = StartTransaction(ts)
    /\ ref' = ts
    /\ tsRet' = [NoTsRet EXCEPT !.op = "StartTransaction"]
    /\ UNCHANGED <<tsViews, ctVars, cvVars, lsVars, lkVars>>

EqWrite ==
    /\ Len(ts.transactions) = 1
    /\ \E w \in Writes :
          /\ ts' = ApplyWrite(ts, w).t
          /\ ref' = ApplyWrite(ref, w).t
          /\ tsRet' = [NoTsRet EXCEPT !.op = "Write"]
    /\ UNCHANGED <<tsViews, ctVars, cvVars, lsVars, lkVars>>

EqCommit ==
    /\ Len(ts.transactions) = 1
    /\ ts' = CommitTransaction(ts)
    /\ ref' = ref
    /\ tsRet' = [NoTsRet EXCEPT !.op = "CommitTransaction"]
    /\ UNCHANGED <<tsViews, ctVars, cvVars, lsVars, lkVars>>

\* ---- the lock of the TrieState and the goroutines that call it ----
\* One goroutine writes (the runtime executing a block), the others read.
Writer == "w"
Readers == {"r1", "r2"}

WriteOps == {"StartTransaction", "Put", "CommitTransaction", "RollbackTransaction"}
ReadOps == {"Get", "NextKey", "Has", "Root", "MustRoot"}

\* The reads that take t.mtx.RLock: Get and NextKey themselves, Has through
\* Get. Root takes no lock, and MustRoot only calls Root.
TakesSharedLock(op) == op \in {"Get", "NextKey", "Has"}

\* The write the writer makes in this specification.
LockWrites == {w \in Writes : w.op = "Put" /\ w.key = <<1, 1>> /\ w.value = "1"}

NoLock == [writer |-> FALSE, readers |-> 0]
NoCalls == [g \in {Writer} \cup Readers |-> "idle"]

\* t.mtx.Lock() at the head of a mutating call: granted when nobody holds
\* the lock.
LkLock(op) ==
    /\ calls[Writer] = "idle"
    /\ ~mtx.writer /\ mtx.readers = 0
    /\ op = "StartTransaction" => Len(ts.transactions) < MaxDepth
    /\ mtx' = [mtx EXCEPT !.writer = TRUE]
    /\ calls' = [calls EXCEPT ![Writer] = op]
    /\ UNCHANGED <<ts, ref, tsRet, tsViews, ctVars, cvVars, lsVars>>

\* The body of the mutating call and the deferred t.mtx.Unlock(); commit and
\* rollback on an empty stack panic and unlock.
LkWriteAndUnlock ==
    /\ calls[Writer] \in WriteOps
    /\ ts' = CASE calls[Writer] = "StartTransaction" -> StartTransaction(ts)
               [] calls[Writer] = "Put" ->
                     LET w == CHOOSE x \in LockWrites : TRUE
                     IN Put(ts, w.key, w.value)
               [] calls[Writer] = "CommitTransaction" ->
                     IF Len(ts.transactions) = 0 THEN ts ELSE CommitTransaction(ts)
               [] calls[Writer] = "RollbackTransaction" ->
                     IF Len(ts.transactions) = 0 THEN ts ELSE RollbackTransaction(ts)
    /\ mtx' = [mtx EXCEPT !.writer = FALSE]
    /\ calls' = [calls EXCEPT ![Writer] = "idle"]
    /\ UNCHANGED <<ref, tsRet, tsViews, ctVars, cvVars, lsVars>>

\* t.mtx.RLock() at the head of Get and NextKey: granted unless the writer
\* holds the lock.
LkRLock(r, op) ==
    /\ TakesSharedLock(op)
    /\ calls[r] = "idle"
    /\ ~mtx.writer
    /\ mtx' = [mtx EXCEPT !.readers = @ + 1]
    /\ calls' = [calls EXCEPT ![r] = op]
    /\ UNCHANGED <<ts, ref, tsRet, tsViews, ctVars, cvVars, lsVars>>

\* The read and the deferred t.mtx.RUnlock().
LkReadAndRUnlock(r) ==
    /\ calls[r] # "idle" /\ TakesSharedLock(calls[r])
    /\ mtx' = [mtx EXCEPT !.readers = @ - 1]
    /\ calls' = [calls EXCEPT ![r] = "idle"]
    /\ UNCHANGED <<ts, ref, tsRet, tsViews, ctVars, cvVars, lsVars>>

\* Root and MustRoot start reading the transaction list at once.
LkRootEnter(r, op) ==
    /\ op \in ReadOps /\ ~TakesSharedLock(op)
    /\ calls[r] = "idle"
    /\ calls' = [calls EXCEPT ![r] = op]
    /\ UNCHANGED <<mtx, ts, ref, tsRet, tsViews, ctVars, cvVars, lsVars>>

\* Root returns. A read that overlapped a write is a data race: it may have
\* seen the list before or after the write, so either outcome can come out.
LkRootReturn(r) ==
    /\ calls[r] # "idle" /\ ~TakesSharedLock(calls[r])
    /\ \E err \in {"none", "panic"} :
          /\ mtx.writer \/ err = Root(ts).err
          /\ tsRet' = [NoTsRet EXCEPT !.op = "Root", !.err = err]
    /\ calls' = [calls EXCEPT ![r] = "idle"]
    /\ UNCHANGED <<mtx, ts, ref, tsViews, ctVars, cvVars, lsVars>>

LkWriterLocks == \E op \in WriteOps : LkLock(op)
LkReaderRLocks == \E r \in Readers, op \in ReadOps : LkRLock(r, op)
LkReaderRUnlocks == \E r \in Readers : LkReadAndRUnlock(r)
LkRootEnters == \E r \in Readers, op \in ReadOps : LkRootEnter(r, op)
LkRootReturns == \E r \in Readers : LkRootReturn(r)

(***************************************************************************)
(* CandidateValidation                                                     *)
(*                                                                         *)
(* The subsystem runs one goroutine, processMessages, that selects on the  *)
(* channel from the overseer and on stopChan. A request carries its own    *)
(* reply channel Ch; the requester is taken to receive from it, so a send  *)
(* on Ch completes. What the runtime and the validation host return is     *)
(* chosen by the environment.                                              *)
(***************************************************************************)
\* Bound on the number of messages the overseer sends.
MaxMessages == 3

MessageKinds ==
    {"ValidateFromChainState", "ValidateFromExhaustive", "PreCheck",
     "ActiveLeavesUpdateSignal", "BlockFinalizedSignal", "Unknown"}

\* validateFromExhaustive returns a result with every error: an invalid
\* candidate from the basic checks (no error), ExecutionError with the error
\* of ValidateBlock, or a valid result.
validateFromExhaustive ==
    {[result |-> "Invalid", err |-> FALSE],
     [result |-> "Invalid", err |-> TRUE],
     [result |-> "Valid", err |-> FALSE]}

\* validateFromChainState returns (nil, err) when getValidationData or
\* SetupVM fails, and otherwise what validateFromExhaustive returns.
validateFromChainState ==
    {[result |-> "nil", err |-> TRUE]} \cup validateFromExhaustive

NoMessage == [id |-> 0, kind |-> "none"]

\* NewCandidateValidation sets SubsystemToOverseer only: OverseerToSubsystem
\* and stopChan are nil (wired = FALSE) until the caller assigns them, and
\* Run does not use the channels it is given.
NewCandidateValidation ==
    [pc |-> "new", wired |-> FALSE, stop |-> "no", sent |-> 0, cur |-> NoMessage,
     replies |-> [id \in 1..MaxMessages |-> <<>>], failed |-> {}]

\* Run: wg.Add(1); go cv.processMessages(&cv.wg).
CvRun ==
    /\ cv.pc = "new"
    /\ cv' = [cv EXCEPT !.pc = "select"]
    /\ UNCHANGED <<ctVars, lsVars, tsVars>>

\* case msg := <-cv.OverseerToSubsystem; a receive from a nil channel never
\* completes.
CvReceive(kind) ==
    /\ cv.pc = "select"
    /\ cv.wired
    /\ cv.sent < MaxMessages
    /\ cv' = [cv EXCEPT !.pc = "handle", !.sent = @ + 1,
                        !.cur = [id |-> cv.sent + 1, kind |-> kind]]
    /\ UNCHANGED <<ctVars, lsVars, tsVars>>

\* The response of a validation request: Data is *result, so a nil result
\* is dereferenced and the goroutine panics before anything is sent.
CvRespond(o) ==
    IF o.result = "nil"
    THEN cv' = [cv EXCEPT !.pc = "panicked", !.failed = @ \cup {cv.cur.id}]
    ELSE cv' = [cv EXCEPT !.pc = "select",
                          !.failed = IF o.err THEN @ \cup {cv.cur.id} ELSE @,
                          !.replies[cv.cur.id] =
                              Append(@, [data |-> o.result, err |-> o.err])]

\* The body of the type switch for the message received.
CvHandle ==
    /\ cv.pc = "handle"
    /\ CASE cv.cur.kind = "ValidateFromChainState" ->
                \E o \in validateFromChainState : CvRespond(o)
         [] cv.cur.kind = "ValidateFromExhaustive" ->
                \E o \in validateFromExhaustive : CvRespond(o)
         [] OTHER -> cv' = [cv EXCEPT !.pc = "select"]
    /\ UNCHANGED <<ctVars, lsVars, tsVars>>

\* Stop: close(cv.stopChan), which panics in the caller on a nil channel.
CvStop ==
    /\ cv.stop = "no"
    /\ cv' = [cv EXCEPT !.stop = IF cv.wired THEN "closed" ELSE "panicked"]
    /\ UNCHANGED <<ctVars, lsVars, tsVars>>

\* case <-cv.stopChan: return, with the deferred wg.Done().
CvReturn ==
    /\ cv.pc = "select"
    /\ cv.stop = "closed"
    /\ cv' = [cv EXCEPT !.pc = "returned"]
    /\ UNCHANGED <<ctVars, lsVars, tsVars>>

CvReceives == \E kind \in MessageKinds : CvReceive(kind)

\* The subsystem as NewCandidateValidation returns it, or with its two
\* channels assigned by the caller.
InitCV ==
    /\ TreeRoots = <<>>
    /\ BestFinalizedNumber = NilNumber
    /\ ctRet = NoCtRet
    /\ storage = EmptyMap
    /\ lsRet = NoLsRet
    /\ lsPre = EmptyMap
    /\ blocks = {}
    /\ ts = NewTrieState(EmptyTrie)
    /\ ref = ts
    /\ tsRet = NoTsRet
    /\ tsViews = <<>>
    /\ mtx = NoLock
    /\ calls = NoCalls
    /\ \E wired \in BOOLEAN : cv = [NewCandidateValidation EXCEPT !.wired = wired]

NextCV ==
    \/ CvRun
    \/ CvReceives
    \/ CvHandle
    \/ CvStop
    \/ CvReturn

\* A goroutine that has received a message goes on to handle it.
SpecCV == InitCV /\ [][NextCV]_vars /\ WF_vars(CvHandle)

\* The three objects as their constructors leave them: NewChangeTree,
\* NewLeafSet and NewTrieState on an empty trie.
Init ==
    /\ TreeRoots = <<>>
    /\ BestFinalizedNumber = NilNumber
    /\ ctRet = NoCtRet
    /\ storage = EmptyMap
    /\ lsRet = NoLsRet
    /\ lsPre = EmptyMap
    /\ blocks = {}
    /\ ts = NewTrieState(EmptyTrie)
    /\ ref = ts
    /\ tsRet = NoTsRet
    /\ tsViews = <<>>
    /\ mtx = NoLock
    /\ calls = NoCalls
    /\ cv = NewCandidateValidation

\* The same with NewTrieState on a trie that may already hold entries.
InitAny ==
    /\ TreeRoots = <<>>
    /\ BestFinalizedNumber = NilNumber
    /\ ctRet = NoCtRet
    /\ storage = EmptyMap
    /\ lsRet = NoLsRet
    /\ lsPre = EmptyMap
    /\ blocks = {}
    /\ \E e \in InitialEntries : ts = NewTrieState([EmptyTrie EXCEPT !.main = e])
    /\ ref = ts
    /\ tsRet = NoTsRet
    /\ tsViews = <<>>
    /\ mtx = NoLock
    /\ calls = NoCalls
    /\ cv = NewCandidateValidation

NextCT ==
    \/ \E hash \in Hashes : Import(hash)
    \/ \E hash \in Hashes, predicate \in Predicates : FinalizesAny(hash, predicate)
    \/ \E hash \in Hashes, predicate \in Predicates : Finalize(hash, predicate)

NextLS ==
    \/ \E hash \in LeafHashes, number \in Numbers, parentHash \in LeafHashes :
         LsImport(hash, number, parentHash)
    \/ \E hash \in LeafHashes, number \in Numbers,
          parentHash \in {<<>>} \cup {<<h>> : h \in LeafHashes} :
         LsRemove(hash, number, parentHash)
    \/ \E number \in Numbers : LsFinalizeHeight(number)
    \/ \E number \in Numbers : LsDisplacedByFinalHeight(number)
    \/ \E bestHash \in LeafHashes, bestNumber \in Numbers :
         LsRevert(bestHash, bestNumber)
    \/ LsUndoImport
    \/ LsUndoRemove
    \/ LsUndoFinalization

SpecCT == Init /\ [][NextCT]_vars

\* The ChangeTree with calls in which the descendant oracle fails.
NextOracle ==
    \/ \E hash \in Hashes : Import(hash)
    \/ \E hash \in Hashes, predicate \in Predicates : FinalizesAny(hash, predicate)
    \/ \E hash \in Hashes, predicate \in Predicates : Finalize(hash, predicate)
    \/ \E hash \in Hashes, failAt \in 1..MaxQueries : ImportOracleFails(hash, failAt)
    \/ \E hash \in Hashes, predicate \in Predicates, failAt \in 1..MaxQueries :
         FinalizesAnyOracleFails(hash, predicate, failAt)
    \/ \E hash \in Hashes, predicate \in Predicates, failAt \in 1..MaxQueries :
         FinalizeOracleFails(hash, predicate, failAt)

SpecOracle == Init /\ [][NextOracle]_vars

SpecLS == Init /\ [][NextLS]_vars

NextBT ==
    \/ \E b \in TreeBlocks : BtImport(b)
    \/ \E b \in TreeBlocks, withParent \in BOOLEAN : BtRemove(b, withParent)
    \/ \E number \in Numbers : BtFinalizeHeight(number)
    \/ \E b \in TreeBlocks : BtRevert(b)

SpecBT == Init /\ [][NextBT]_vars

NextTS ==
    \/ TsPut
    \/ TsDelete
    \/ TsClearPrefix
    \/ TsClearPrefixLimit
    \/ TsDeleteChild
    \/ TsStartTransaction
    \/ TsCommitTransaction
    \/ TsRollbackTransaction
    \/ TsRoot

SpecTS == InitAny /\ [][NextTS]_vars

\* The same operations together with the writes into child tries.
NextTSAll ==
    \/ TsPut
    \/ TsDelete
    \/ TsClearPrefix
    \/ TsClearPrefixLimit
    \/ TsSetChildStorage
    \/ TsClearChildStorage
    \/ TsDeleteChild
    \/ TsStartTransaction
    \/ TsCommitTransaction
    \/ TsRollbackTransaction

SpecTSAll == Init /\ [][NextTSAll]_vars

\* The operations on child tries alone, over a child trie of two keys.
NextCS ==
    \/ CsSetChildStorage
    \/ CsClearChildStorage
    \/ CsDeleteChild
    \/ CsClearPrefixInChild
    \/ CsClearPrefixInChildWithLimit
    \/ CsDeleteChildLimit
    \/ TsStartTransaction
    \/ TsCommitTransaction
    \/ TsRollbackTransaction

SpecCS == Init /\ [][NextCS]_vars

NextLock ==
    \/ LkWriterLocks
    \/ LkWriteAndUnlock
    \/ LkReaderRLocks
    \/ LkReaderRUnlocks
    \/ LkRootEnters
    \/ LkRootReturns

SpecLock == Init /\ [][NextLock]_vars

NextEq ==
    \/ EqDirect
    \/ EqStart
    \/ EqWrite
    \/ EqCommit

SpecEq == InitAny /\ [][NextEq]_vars

(***************************************************************************)
(* Claims about the ChangeTree (checked under SpecCT)                      *)
(***************************************************************************)

\* C1: once a finalization has set best_finalized_number = b, an Import with
\* number <= b fails with Revert (and so adds no node to the forest).
C1_ImportAtOrBelowBestFinalizedReverts ==
    (/\ ctRet.op = "Import"
     /\ BestFinalizedNumber # NilNumber
     /\ ctRet.number <= BestFinalizedNumber[1])
        => (ctRet.err = "Revert")

\* C2: after FinalizeWithDescendentIf(hash, n, ...) returns without error,
\* whatever the result variant, best_finalized_number equals n.
C2_FinalizeSetsBestFinalizedNumber ==
    (ctRet.op = "Finalize" /\ ctRet.err = "none")
        => (BestFinalizedNumber = <<ctRet.number>>)

\* The forest of the fork scenario: A=(hA,10) with children B=(hB,11) and
\* C=(hC,11), as left by Import(hA), Import(hB), Import(hC) on an empty tree.
ScenarioB == PendingChangeNode("hB", 11)
ScenarioC == PendingChangeNode("hC", 11)
ScenarioRoots ==
    <<[Change |-> [CanonHash |-> "hA", CanonHeight |-> 10],
       Children |-> <<ScenarioB, ScenarioC>>]>>

ScenarioCall ==
    /\ TreeRoots = ScenarioRoots
    /\ BestFinalizedNumber = NilNumber
    /\ ctRet'.op = "Finalize"
    /\ ctRet'.hash = "hB"
    /\ ctRet'.number = 11
    /\ ctRet'.predicate = Hashes

\* C3 as stated: in the fork scenario FinalizeWithDescendentIf(hB, 11,
\* is_desc_of, always-true) returns Changed(A) and leaves exactly the root B.
C3_ScenarioReturnsChangedA ==
    [][ScenarioCall =>
          (/\ ctRet'.err = "none"
           /\ ctRet'.result = Changed(<<[CanonHash |-> "hA", CanonHeight |-> 10]>>)
           /\ TreeRoots' = <<ScenarioB>>)]_vars

\* C3 as amended: in the fork scenario FinalizeWithDescendentIf(hB, 11,
\* is_desc_of, always-true) fails with UnfinalisedAncestor, because the
\* child B of the matched root A is the finalized block itself, and the
\* forest and best_finalized_number stay as they were.
C3_ScenarioFailsUnfinalisedAncestor ==
    [][ScenarioCall =>
          (/\ ctRet'.err = "UnfinalisedAncestor"
           /\ TreeRoots' = TreeRoots
           /\ BestFinalizedNumber' = BestFinalizedNumber)]_vars

C3_Witness ==
    /\ TreeRoots = ScenarioRoots
    /\ BestFinalizedNumber = NilNumber
    /\ ctRet.op = "Finalize"
    /\ ctRet.hash = "hB"
    /\ ctRet.predicate = Hashes
    /\ ctRet.err = "UnfinalisedAncestor"

\* The parent/child edges of the forest, as pairs of changes.
Edges(roots) ==
    LET nodes == getPreOrderChangeNodesOfRoots(roots, 1)
    IN UNION {{<<nodes[i].Change, nodes[i].Children[j].Change>> :
                   j \in 1..Len(nodes[i].Children)} : i \in 1..Len(nodes)}

\* C4: with a consistent descendant oracle, in every reachable state every
\* parent->child edge has child.canon_height > parent.canon_height and
\* is_desc_of(parent.canon_hash, child.canon_hash).
C4_EdgesAscendAndDescend ==
    \A e \in Edges(TreeRoots) :
        /\ e[2].CanonHeight > e[1].CanonHeight
        /\ isDescendentOf(e[1].CanonHash, e[2].CanonHash)

\* A finalization has promoted children to roots and an edge is left below.
C4_Witness ==
    /\ ctRet.op = "Finalize"
    /\ ctRet.err = "none"
    /\ ctRet.result.kind = "Changed"
    /\ ctRet.result.value # <<>>
    /\ Edges(TreeRoots) # {}

(***************************************************************************)
(* Claims about the LeafSet (checked under SpecLS)                         *)
(***************************************************************************)

\* The leaves of a storage as a set of (number, hash) pairs.
LeafPairs(st) ==
    UNION {{<<n, st[n][i]>> : i \in 1..Len(st[n])} : n \in DOMAIN st}

\* C5: after FinalizeHeight(n) returns, no leaf with number < n remains.
C5_NoLeafBelowFinalizedHeight ==
    (lsRet.op = "FinalizeHeight")
        => (\A p \in LeafPairs(storage) : ~(p[1] < lsRet.number))

\* C6: FinalizeHeight(n) removes exactly the levels with key <= n-1, returns
\* exactly those levels as the removed map and leaves every level with
\* number >= n in place; FinalizeHeight(0) removes nothing.
C6_FinalizeHeightRemovesExactlyLowerLevels ==
    (lsRet.op = "FinalizeHeight")
        => (/\ storage = [n \in {k \in DOMAIN lsPre : k >= lsRet.number} |-> lsPre[n]]
            /\ lsRet.removedMap =
                   [n \in {k \in DOMAIN lsPre : k <= lsRet.number - 1} |-> lsPre[n]])

\* C10: Import immediately followed by UndoImport with the returned outcome
\* restores the leaf set to its contents before the Import.
C10_UndoImportRestores ==
    (lsRet.op = "UndoImport") => (LeafPairs(storage) = LeafPairs(lsPre))

\* C11: a Remove that returned an outcome, immediately followed by
\* UndoRemove with that outcome, restores the leaf set to its contents before
\* the Remove.
C11_UndoRemoveRestores ==
    (lsRet.op = "UndoRemove") => (LeafPairs(storage) = LeafPairs(lsPre))

\* C12: FinalizeHeight(n) immediately followed by UndoFinalization with the
\* returned outcome restores the leaf set to its contents before the
\* FinalizeHeight.
C12_UndoFinalizationRestores ==
    (lsRet.op = "UndoFinalization") => (storage = lsPre)

\* A finalization that displaced a level was undone.
C12_Witness ==
    /\ lsRet.op = "UndoFinalization"
    /\ lsRet.number > 0
    /\ DOMAIN lsRet.removedMap # {}
    /\ storage = lsPre

\* C14: Import(h, n, p) with n > 0 removes (p, n-1) when it was a leaf and
\* records removed = p; it always inserts (h, n), so afterwards (h, n) is a
\* leaf and (p, n-1) is not; with n = 0 nothing is removed.
C14_ImportDisplacesParent ==
    (lsRet.op = "Import") =>
        LET h == lsRet.hash
            n == lsRet.number
            p == lsRet.parentHash[1]
            wasLeaf == n > 0 /\ Contains(lsPre, n - 1, p)
        IN /\ Contains(storage, n, h)
           /\ n > 0 => ~Contains(storage, n - 1, p)
           /\ lsRet.removed = (IF wasLeaf THEN <<p>> ELSE <<>>)
           /\ lsRet.inserted = [hash |-> h, number |-> n]
           /\ LeafPairs(storage) =
                  (LeafPairs(lsPre) \ (IF n > 0 THEN {<<n - 1, p>>} ELSE {}))
                      \cup {<<n, h>>}

\* An Import displaced its parent while another leaf stayed.
C14_Witness ==
    /\ lsRet.op = "Import"
    /\ lsRet.number > 0
    /\ lsRet.removed = lsRet.parentHash
    /\ Contains(lsPre, lsRet.number - 1, lsRet.parentHash[1])
    /\ Cardinality(LeafPairs(storage)) >= 2

\* How many times a hash is listed at a level.
Occurrences(st, number, hash) ==
    IF number \in DOMAIN st
    THEN Cardinality({i \in 1..Len(st[number]) : st[number][i] = hash})
    ELSE 0

\* C15: after Revert(best_hash, best_number) the set is the old leaves with
\* number <= best_number together with (best_hash, best_number), which is a
\* leaf exactly once.
C15_RevertKeepsLowerLeavesAndBest ==
    (lsRet.op = "Revert") =>
        /\ ~lsRet.panicked
        /\ LeafPairs(storage) =
               {p \in LeafPairs(lsPre) : p[1] <= lsRet.number}
                   \cup {<<lsRet.number, lsRet.hash>>}
        /\ Occurrences(storage, lsRet.number, lsRet.hash) = 1

\* The leaves of the set as blocks of the tree.
LeafBlocks == {p[2] : p \in LeafPairs(storage)}

C7_RollbackRestoresGetView ==
    (tsRet.op = "RollbackTransaction" /\ tsRet.err = "none")
        => (GetView(ts) = tsRet.view)

\* A nested transaction whose writes had changed what Get returns was rolled
\* back, and the enclosing transaction sees its own Put again.
C7_Witness ==
    /\ tsRet.op = "RollbackTransaction"
    /\ tsRet.err = "none"
    /\ tsRet.changed
    /\ Len(ts.transactions) = 1
    /\ Get(ts, <<1, 1>>) = "2"
    /\ TrieGet(ts.state, <<1, 1>>) = "1"

\* What the two objects of the comparison show to a caller.
SameObservations(a, b) ==
    /\ a.state = b.state
    /\ a.sortedKeys = b.sortedKeys
    /\ \A c \in ChildKeys : childSorted(a, c) = childSorted(b, c)
    /\ \A k \in Keys : Get(a, k) = Get(b, k)
    /\ \A k \in Keys : NextKey(a, k) = NextKey(b, k)

\* C8: StartTransaction; W; CommitTransaction yields the same committed trie,
\* the same sorted-key mirrors and the same later Get and NextKey results as
\* W applied directly with no transaction open (ref is that direct run).
C8_CommitEqualsDirectWrites ==
    (tsRet.op = "CommitTransaction") => SameObservations(ts, ref)

\* The keys a caller can read through the current view.
VisibleKeys(t) == {k \in Keys : Get(t, k) # Nil}

LeastGreaterKey(S, key) ==
    LET above == {k \in S : KeyLess(key, k)}
    IN IF above = {} THEN NilKey
       ELSE CHOOSE m \in above : \A k \in above : m = k \/ KeyLess(m, k)

\* C9: for every key k, with or without open transactions, NextKey(k) is the
\* least visible key strictly greater than k, or nil, and never k itself.
C9_NextKeyIsLeastGreaterVisible ==
    \A k \in Keys : NextKey(ts, k) = LeastGreaterKey(VisibleKeys(ts), k)

\* C16: at every transaction depth, for every key k and non-empty value v,
\* Put(k, v) immediately followed by Get(k) returns v, also when k was
\* deleted earlier in the same or an enclosing transaction.
C16_PutThenGetReturnsValue ==
    \A k \in Keys, v \in Values : Get(Put(ts, k, v), k) = v

\* A Put made in a nested transaction on a key its enclosing transaction
\* had deleted.
C16_Witness ==
    /\ tsRet.op = "Write"
    /\ Len(ts.transactions) = 2
    /\ \E k \in Keys :
          /\ k \in ts.transactions[1].deletes
          /\ k \in DOMAIN ts.transactions[2].upserts
          /\ Get(ts, k) \in Values
          /\ TrieGet(ts.state, k) # Get(ts, k)

\* The visible keys that carry a prefix.
VisibleWithPrefix(t, prefix) == {k \in VisibleKeys(t) : HasPrefix(k, prefix)}

\* C17: ClearPrefixLimit(prefix, limit), inside or outside a transaction,
\* deletes exactly the min(limit, m) smallest of the m visible keys with the
\* prefix, returns that number as deleted_count, and returns all_deleted =
\* true iff no visible key with the prefix remains (so limit 0 deletes
\* nothing and returns false when a matching key exists).
C17_ClearPrefixLimitDeletesSmallest ==
    \A p \in Prefixes, l \in Limits :
        LET r == ClearPrefixLimit(ts, p, l)
            matching == SortedSeq(VisibleWithPrefix(ts, p))
            n == IF l < Len(matching) THEN l ELSE Len(matching)
            gone == {matching[j] : j \in 1..n}
        IN /\ VisibleKeys(r.t) = VisibleKeys(ts) \ gone
           /\ \A k \in VisibleKeys(r.t) : Get(r.t, k) = Get(ts, k)
           /\ r.deleted = n
           /\ r.allDeleted = (VisibleWithPrefix(r.t, p) = {})

\* The structural errors of the ChangeTree.
StructuralErrors == {"DuplicateHashes", "Revert", "UnfinalisedAncestor"}

\* C18: whenever Import fails with DuplicateHashes, or one of the Finalize*
\* calls fails with Revert or UnfinalisedAncestor, the forest (roots,
\* children, order) and best_finalized_number are identical to their values
\* before the call.
C18_StructuralErrorsDoNotMutate ==
    [][(ctRet'.err \in StructuralErrors)
          => (TreeRoots' = TreeRoots /\ BestFinalizedNumber' = BestFinalizedNumber)]_vars

\* An Import that failed with DuplicateHashes on a forest of several nodes
\* that already has a finalized number.
C18_Witness ==
    /\ ctRet.op = "Import"
    /\ ctRet.err = "DuplicateHashes"
    /\ nodeCount(TreeRoots) >= 2
    /\ BestFinalizedNumber # NilNumber

\* C19: over any sequence of Import, FinalizesAnyWithDescendentIf and
\* FinalizeWithDescendentIf calls, best_finalized_number never decreases once
\* set, and each successful FinalizeWithDescendentIf leaves it strictly
\* greater than its previous value.
C19_BestFinalizedNumberIncreases ==
    [][(BestFinalizedNumber # NilNumber)
          => /\ BestFinalizedNumber' # NilNumber
             /\ BestFinalizedNumber'[1] >= BestFinalizedNumber[1]
             /\ (ctRet'.op = "Finalize" /\ ctRet'.err = "none")
                   => BestFinalizedNumber'[1] > BestFinalizedNumber[1]]_vars

\* The hashes of the forest in pre-order.
ForestHashes ==
    LET nodes == getPreOrderChangeNodesOfRoots(TreeRoots, 1)
    IN [i \in 1..Len(nodes) |-> nodes[i].Change.CanonHash]

\* C20: in every state reachable by Import and the Finalize* calls with a
\* consistent descendant oracle, imports in any order, no two nodes of the
\* forest have the same canon_hash, and an Import whose hash equals that of a
\* node already in the forest fails with DuplicateHashes.
C20_HashesUniqueInForest ==
    /\ \A i, j \in 1..Len(ForestHashes) :
          ForestHashes[i] = ForestHashes[j] => i = j
    /\ \A i \in 1..Len(ForestHashes) :
          ImportResult(TreeRoots, ForestHashes[i], Height[ForestHashes[i]]).err
              = "DuplicateHashes"

\* An Import refused for a hash held below a root, in a forest whose roots
\* were imported out of height order.
C20_Witness ==
    /\ ctRet.op = "Import"
    /\ ctRet.err = "DuplicateHashes"
    /\ ~isRootHash(TreeRoots, ctRet.hash)
    /\ \E i \in 1..Len(ForestHashes) : ForestHashes[i] = ctRet.hash
    /\ Len(TreeRoots) >= 2
    /\ TreeRoots[1].Change.CanonHeight > TreeRoots[2].Change.CanonHeight

\* The change of the stack depth that a call reports through its outcome.
DepthChange(ret) ==
    IF ret.op = "StartTransaction" THEN 1
    ELSE IF ret.op \in {"CommitTransaction", "RollbackTransaction"} /\ ret.err = "none"
    THEN -1
    ELSE 0

\* C21: CommitTransaction and RollbackTransaction on an empty stack panic
\* and change nothing; Root and MustRoot panic while a transaction is open;
\* the stack depth follows #Start - #Commit - #Rollback (every call moves it
\* by its own contribution) and is never negative.
C21_EmptyStackAndRootPanic ==
    [][/\ Len(ts'.transactions) = Len(ts.transactions) + DepthChange(tsRet')
       /\ Len(ts'.transactions) >= 0
       /\ (tsRet'.op \in {"CommitTransaction", "RollbackTransaction"})
             => /\ (tsRet'.err = "panic") = (Len(ts.transactions) = 0)
                /\ (tsRet'.err = "panic") => (ts' = ts)
       /\ (tsRet'.op = "Root")
             => /\ (tsRet'.err = "panic") = (Len(ts.transactions) > 0)
                /\ ts' = ts]_vars

\* Root refused inside a nested transaction that holds uncommitted writes.
C21_Witness ==
    /\ tsRet.op = "Root"
    /\ tsRet.err = "panic"
    /\ Len(ts.transactions) = 2
    /\ DOMAIN Last(ts.transactions).upserts # {}

C23_RemoveReturnsNoneOnlyForNonLeaf ==
    (lsRet.op = "Remove") =>
        LET h == lsRet.hash
            n == lsRet.number
            wasLeaf == Contains(lsPre, n, h)
            insertsParent == lsRet.parentHash # <<>> /\ n > 0
        IN /\ lsRet.some = wasLeaf
           /\ ~wasLeaf => storage = lsPre
           /\ wasLeaf =>
                 /\ LeafPairs(storage) =
                       (LeafPairs(lsPre) \ {<<n, h>>})
                          \cup (IF insertsParent THEN {<<n - 1, lsRet.parentHash[1]>>}
                                ELSE {})
                 /\ lsRet.removedItem = [hash |-> h, number |-> n]
                 /\ lsRet.insertedParent = (IF insertsParent THEN lsRet.parentHash ELSE <<>>)

\* A goroutine is reading the object without holding the lock.
UnlockedRead(r) == calls[r] # "idle" /\ ~TakesSharedLock(calls[r])

\* C24: every read is made under the shared lock and every mutation under
\* the exclusive lock, so in no interleaving of the writer (Start, Put,
\* Commit, Rollback) with concurrent readers (Get, NextKey, Root, MustRoot,
\* Has) is an unlocked read in progress while a write is in progress.
C24_NoUnlockedReadDuringWrite ==
    \A r \in Readers : ~(UnlockedRead(r) /\ calls[Writer] # "idle")

\* The numbers of the levels in a written leaf list, in written order.
WrittenNumbers(bytes) ==
    LET vals == ScaleUnmarshal(bytes)
    IN [i \in 1..Len(vals) |-> vals[i].Number]

\* C25: the value written by PrepareTransaction, read back with
\* NewLeafSetFromDB, yields a leaf set with the same levels and the same
\* hashes per level; the written sequence of (number, hashes) is ordered by
\* number descending.
C25_LeafSetRoundTripsThroughDB ==
    LET written == PrepareTransaction(storage)
        nums == WrittenNumbers(written)
    IN /\ NewLeafSetFromDB(written) = storage
       /\ \A i \in 1..Len(nums) - 1 : nums[i] > nums[i + 1]

\* A leaf set of two levels that comes back from the database as it was
\* written, the higher level first.
C25_Witness ==
    /\ Cardinality(DOMAIN storage) >= 2
    /\ Len(PrepareTransaction(storage)) >= 7
    /\ WrittenNumbers(PrepareTransaction(storage))[1] > 0
    /\ NewLeafSetFromDB(PrepareTransaction(storage)) = storage

\* The positions of the roots in the pre-order sequence of the forest.
RECURSIVE RootPositions(_, _)
RootPositions(roots, j) ==
    IF j > Len(roots) THEN {}
    ELSE {1 + Len(getPreOrderChangeNodesOfRoots(SubSeq(roots, 1, j - 1), 1))}
         \cup RootPositions(roots, j + 1)

\* The pre-order positions of the nodes a finalization of hash may finalize.
MatchingPositions(roots, hash, predicate) ==
    LET nodes == getPreOrderChangeNodesOfRoots(roots, 1)
    IN {i \in 1..Len(nodes) :
           /\ nodes[i].Change.CanonHash \in predicate
           /\ \/ nodes[i].Change.CanonHash = hash
              \/ isDescendentOf(nodes[i].Change.CanonHash, hash)}

\* some(true), some(false) or none for the first matching node.
ExpectedFinalizesAny(roots, hash, predicate) ==
    LET m == MatchingPositions(roots, hash, predicate)
    IN IF m = {} THEN <<>>
       ELSE LET first == CHOOSE i \in m : \A j \in m : i <= j
            IN <<first \in RootPositions(roots, 1)>>

\* C26: FinalizesAnyWithDescendentIf, when it does not fail, returns
\* some(true) if the first node in pre-order that passes the predicate and is
\* equal to or an ancestor of the block is a root, some(false) if that node
\* is not a root, and none if no node matches; the call never changes the
\* forest or best_finalized_number.
C26_FinalizesAnyReportsFirstMatch ==
    [][(ctRet'.op = "FinalizesAny")
          => /\ TreeRoots' = TreeRoots
             /\ BestFinalizedNumber' = BestFinalizedNumber
             /\ (ctRet'.err = "none")
                   => ctRet'.finalizes =
                         ExpectedFinalizesAny(TreeRoots, ctRet'.hash, ctRet'.predicate)]_vars

\* A call that reports a node below a root, although a root is an ancestor
\* of the block as well.
C26_Witness ==
    /\ ctRet.op = "FinalizesAny"
    /\ ctRet.err = "none"
    /\ ctRet.finalizes = <<FALSE>>
    /\ \E j \in 1..Len(TreeRoots) :
          isDescendentOf(TreeRoots[j].Change.CanonHash, ctRet.hash)

\* The node a Finalize* call matches: the first node that passes the
\* predicate and is equal to or an ancestor of the block, among all nodes in
\* pre-order (FinalizesAny) or among the roots (Finalize); <<>> when none.
MatchedNode(op, roots, hash, predicate) ==
    LET nodes == IF op = "FinalizesAny" THEN getPreOrderChangeNodesOfRoots(roots, 1)
                 ELSE roots
        m == {i \in 1..Len(nodes) :
                 /\ nodes[i].Change.CanonHash \in predicate
                 /\ \/ nodes[i].Change.CanonHash = hash
                    \/ isDescendentOf(nodes[i].Change.CanonHash, hash)}
    IN IF m = {} THEN <<>>
       ELSE <<nodes[CHOOSE i \in m : \A j \in m : i <= j]>>

\* The matched node has a child at or below number that is equal to or an
\* ancestor of the block.
HasUnfinalisedChild(op, roots, hash, number, predicate) ==
    LET x == MatchedNode(op, roots, hash, predicate)
    IN /\ x # <<>>
       /\ \E c \in 1..Len(x[1].Children) :
             /\ x[1].Children[c].Change.CanonHeight <= number
             /\ \/ x[1].Children[c].Change.CanonHash = hash
                \/ isDescendentOf(x[1].Children[c].Change.CanonHash, hash)

\* C27: a Finalize* call that passes the Revert check fails with
\* UnfinalisedAncestor exactly when the matched node has a child C with
\* C.canon_height <= number that is equal to or an ancestor of the block;
\* in that case no node is finalized.
C27_UnfinalisedAncestorExactlyOnChild ==
    [][(ctRet'.op \in {"FinalizesAny", "Finalize"} /\ ctRet'.err # "Revert")
          => /\ (ctRet'.err = "UnfinalisedAncestor")
                    = HasUnfinalisedChild(ctRet'.op, TreeRoots, ctRet'.hash,
                                          ctRet'.number, ctRet'.predicate)
             /\ (ctRet'.err = "UnfinalisedAncestor")
                   => /\ TreeRoots' = TreeRoots
                      /\ BestFinalizedNumber' = BestFinalizedNumber
                      /\ ctRet'.finalizes = <<>>
                      /\ ctRet'.result = NoResult]_vars

\* FinalizesAny refused because of the child of a matched node that is not
\* a root.
C27_Witness ==
    /\ ctRet.op = "FinalizesAny"
    /\ ctRet.err = "UnfinalisedAncestor"
    /\ MatchedNode("FinalizesAny", TreeRoots, ctRet.hash, ctRet.predicate) # <<>>
    /\ ~isRootHash(TreeRoots,
           MatchedNode("FinalizesAny", TreeRoots, ctRet.hash, ctRet.predicate)[1]
               .Change.CanonHash)

\* A node claims an import: it is an ancestor of the block at a lower height.
Claims(node, hash, number) ==
    /\ isDescendentOf(node.Change.CanonHash, hash)
    /\ number > node.Change.CanonHeight

\* The forest after the new node is attached by descending into the first
\* claiming node of every level and appending where no node claims.
RECURSIVE AttachBelow(_, _, _)
AttachBelow(nodes, hash, number) ==
    LET claiming == {i \in 1..Len(nodes) : Claims(nodes[i], hash, number)}
    IN IF claiming = {} THEN Append(nodes, PendingChangeNode(hash, number))
       ELSE LET first == CHOOSE i \in claiming : \A j \in claiming : i <= j
            IN [nodes EXCEPT ![first].Children = AttachBelow(@, hash, number)]

\* C28: a successful Import attaches the new node under the deepest node
\* reached by descending, from the first root in order, into the first child
\* in order that claims it, as the last child there; if no root claims it
\* the node becomes the last root; is_root is true iff it became a root.
C28_ImportAttachesBelowFirstClaimingPath ==
    [][(ctRet'.op = "Import" /\ ctRet'.err = "none")
          => /\ TreeRoots' = AttachBelow(TreeRoots, ctRet'.hash, ctRet'.number)
             /\ ctRet'.isRoot =
                   (\A i \in 1..Len(TreeRoots) :
                        ~Claims(TreeRoots[i], ctRet'.hash, ctRet'.number))
             /\ ctRet'.isRoot =
                   (Len(TreeRoots') = Len(TreeRoots) + 1
                    /\ Last(TreeRoots') = PendingChangeNode(ctRet'.hash, ctRet'.number))
             /\ BestFinalizedNumber' = BestFinalizedNumber]_vars

\* An import that went two levels down, below a root that is not the first.
C28_Witness ==
    /\ ctRet.op = "Import"
    /\ ctRet.err = "none"
    /\ ~ctRet.isRoot
    /\ \E j \in 2..Len(TreeRoots) :
          \E k \in 1..Len(TreeRoots[j].Children) :
              /\ Len(TreeRoots[j].Children[k].Children) > 0
              /\ Last(TreeRoots[j].Children[k].Children).Change.CanonHash = ctRet.hash

\* The three cases in which the pruning keeps a root.
KeepsRoot(r, hash, number) ==
    \/ r.Change.CanonHeight > number /\ isDescendentOf(hash, r.Change.CanonHash)
    \/ r.Change.CanonHeight = number /\ r.Change.CanonHash = hash
    \/ r.Change.CanonHeight < number /\ isDescendentOf(r.Change.CanonHash, hash)

\* The position of the root a finalization finalizes, 0 when none.
FinalizedPosition(roots, hash, predicate) ==
    LET m == {i \in 1..Len(roots) :
                 /\ roots[i].Change.CanonHash \in predicate
                 /\ \/ roots[i].Change.CanonHash = hash
                    \/ isDescendentOf(roots[i].Change.CanonHash, hash)}
    IN IF m = {} THEN 0 ELSE CHOOSE i \in m : \A j \in m : i <= j

\* The nodes that stand for pruning: the previous roots other than the
\* finalized one, together with the children of the finalized root.
PruningCandidates(roots, hash, predicate) ==
    LET p == FinalizedPosition(roots, hash, predicate)
    IN {roots[i] : i \in 1..Len(roots) \ {p}}
          \cup (IF p = 0 THEN {}
                ELSE {roots[p].Children[c] : c \in 1..Len(roots[p].Children)})

\* C29: after a successful FinalizeWithDescendentIf(hash, number, ...) the
\* roots are exactly the candidates (previous roots other than the finalized
\* one, and the finalized root's children) that satisfy (i), (ii) or (iii),
\* each with its subtree; a previous root that satisfies one of them is
\* never dropped.
C29_RootsAfterFinalizeArePrunedCandidates ==
    [][(ctRet'.op = "Finalize" /\ ctRet'.err = "none")
          => {TreeRoots'[i] : i \in 1..Len(TreeRoots')}
                = {r \in PruningCandidates(TreeRoots, ctRet'.hash, ctRet'.predicate) :
                       KeepsRoot(r, ctRet'.hash, ctRet'.number)}]_vars

\* The set of roots of a forest.
RootSet(roots) == {roots[i] : i \in 1..Len(roots)}

\* C30: a successful FinalizeWithDescendentIf returns Changed(change of X)
\* iff a matching root X was removed as finalized, Changed(none) iff no root
\* was finalized but pruning removed at least one root, and Unchanged iff the
\* set of roots is the same as before the call.
C30_FinalizeResultVariant ==
    [][(ctRet'.op = "Finalize" /\ ctRet'.err = "none")
          => LET p == FinalizedPosition(TreeRoots, ctRet'.hash, ctRet'.predicate)
                 res == ctRet'.result
             IN /\ (res.kind = "Changed" /\ res.value # <<>>) = (p # 0)
                /\ (p # 0) => /\ res.value = <<TreeRoots[p].Change>>
                              /\ TreeRoots[p] \notin RootSet(TreeRoots')
                /\ (res.kind = "Changed" /\ res.value = <<>>)
                      = (p = 0 /\ RootSet(TreeRoots) \ RootSet(TreeRoots') # {})
                /\ (res = Unchanged) = (RootSet(TreeRoots') = RootSet(TreeRoots))]_vars

\* A finalization that finalized no root and pruned some roots while
\* keeping another.
C30_Witness ==
    /\ ctRet.op = "Finalize"
    /\ ctRet.err = "none"
    /\ ctRet.result = Changed(<<>>)
    /\ Len(TreeRoots) >= 1

(***************************************************************************)
(* Claims about the child tries (checked under SpecCS)                     *)
(***************************************************************************)

\* What a write made under an open transaction has to leave alone: the
\* committed trie, both mirrors and every diff below the innermost one.
OnlyInnermostDiffers(before, after) ==
    /\ after.state = before.state
    /\ after.sortedKeys = before.sortedKeys
    /\ after.childSortedKeys = before.childSortedKeys
    /\ Len(after.transactions) = Len(before.transactions)
    /\ Front(after.transactions) = Front(before.transactions)

\* C31: while at least one transaction is open, every write (Put, Delete,
\* ClearPrefix, ClearPrefixLimit, SetChildStorage, ClearChildStorage,
\* ClearPrefixInChild with and without limit, DeleteChild, DeleteChildLimit)
\* leaves the committed main and child tries, sorted_keys, child_sorted_keys
\* and every non-innermost diff of the stack unchanged.
C31_WritesUnderTransactionTouchInnermostOnly ==
    hasCurrentTransaction(ts) =>
        /\ \A w \in Writes : OnlyInnermostDiffers(ts, ApplyWrite(ts, w).t)
        /\ \A w \in ChildWrites : OnlyInnermostDiffers(ts, ApplyChildWrite(ts, w).t)

\* A write has just changed the inner of two open diffs, over a committed
\* child trie that holds an entry.
C31_Witness ==
    /\ tsRet.op = "Write"
    /\ Len(ts.transactions) = 2
    /\ ts.transactions[2] # ts.transactions[1]
    /\ \E c \in ChildKeys : DOMAIN childEntries(ts, c) # {}
    /\ \E w \in Writes : ApplyWrite(ts, w).t # ts
\* C32: whenever the transaction stack is empty, sorted_keys is strictly
\* ascending, free of duplicates and holds exactly the keys of the
\* committed main trie, for any initial trie given to NewTrieState.
C32_SortedKeysMirrorMainTrie ==
    Len(ts.transactions) = 0 =>
        /\ \A i \in 1..(Len(ts.sortedKeys) - 1) :
               KeyLess(ts.sortedKeys[i], ts.sortedKeys[i + 1])
        /\ {ts.sortedKeys[i] : i \in 1..Len(ts.sortedKeys)} = DOMAIN ts.state.main
\* C33: whenever the transaction stack is empty, child_sorted_keys[c] is,
\* for every child key c, the ascending list of the keys of the committed
\* child trie c (empty or absent when there is no such child trie).
C33_ChildSortedKeysMirrorChildTries ==
    Len(ts.transactions) = 0 =>
        \A c \in ChildKeys :
            childSorted(ts, c) = SortedSeq(DOMAIN childEntries(ts, c))
\* The n smallest keys of a child trie.
SmallestKeys(entries, n) ==
    LET keys == SortedSeq(DOMAIN entries)
    IN {keys[j] : j \in 1..n}

\* C34: DeleteChildLimit(c, limit) with no transaction open and an existing
\* child trie of q entries: with the limit absent the child trie is deleted
\* and (q, true) returned; with limit L exactly the min(L, q) smallest
\* entries are deleted, never more than L, and (min(L, q), all_deleted) is
\* returned, all_deleted being true iff no entry remains.
C34_DeleteChildLimitDeletesSmallest ==
    Len(ts.transactions) = 0 =>
        \A c \in ChildKeys :
            TrieHasChild(ts.state, c) =>
                LET entries == childEntries(ts, c)
                    q == Cardinality(DOMAIN entries)
                    absent == DeleteChildLimit(ts, c, NilLimit)
                IN /\ absent.err = "none"
                   /\ ~TrieHasChild(absent.t.state, c)
                   /\ absent.deleted = q
                   /\ absent.allDeleted
                   /\ \A L \in 0..(q + 1) :
                          LET r == DeleteChildLimit(ts, c, L)
                              m == IF L < q THEN L ELSE q
                              left == DOMAIN entries \ SmallestKeys(entries, m)
                          IN /\ r.err = "none"
                             /\ DOMAIN childEntries(r.t, c) = left
                             /\ r.deleted = m
                             /\ r.allDeleted = (left = {})
(***************************************************************************)
(* Further claims about the LeafSet (checked under SpecLS)                 *)
(***************************************************************************)

\* C35: for every leaf set and every n, DisplacedByFinalHeight(n) returns
\* the removed map that FinalizeHeight(n) returns on that leaf set, and
\* leaves the leaf set unchanged.
C35_DisplacedEqualsFinalizeHeightRemoved ==
    (lsRet.op = "DisplacedByFinalHeight") =>
        /\ lsRet.removedMap = FinalizeHeight(lsPre, lsRet.number).removed
        /\ storage = lsPre

\* A dry run over two levels that reports a displaced level.
C35_Witness ==
    /\ lsRet.op = "DisplacedByFinalHeight"
    /\ lsRet.number > 0
    /\ DOMAIN lsRet.removedMap # {}
    /\ Cardinality(DOMAIN storage) = 2
(***************************************************************************)
(* Further claims about the ChangeTree (checked under SpecCT)              *)
(***************************************************************************)

\* FinalizesAnyWithDescendentIf on the forest a Finalize call started from,
\* with the arguments of that call.
AnyBefore(roots, best, ret) ==
    FinalizesAnyWithDescendentIf(roots, best, ret.hash, ret.number, ret.predicate)

\* The call returned Changed(X.change) for a root X of the forest.
ChangedRoot(roots, ret) ==
    /\ ret.err = "none"
    /\ ret.result.kind = "Changed"
    /\ ret.result.value # <<>>
    /\ \E j \in 1..Len(roots) : roots[j].Change = ret.result.value[1]

\* The first node in pre-order that matches the call lies below a root.
FirstMatchBelowRoot(roots, ret) ==
    ExpectedFinalizesAny(roots, ret.hash, ret.predicate) = <<FALSE>>

\* C36 as stated: on any reachable tree FinalizesAnyWithDescendentIf returns
\* some(true) iff FinalizeWithDescendentIf with the same arguments returns
\* Changed(X.change) for a root X, and the two calls fail with the same
\* error kind.
C36_FinalizesAnyAgreesWithFinalize ==
    [][(ctRet'.op = "Finalize")
          => LET any == AnyBefore(TreeRoots, BestFinalizedNumber, ctRet')
             IN /\ (any.ret = <<TRUE>>) = ChangedRoot(TreeRoots, ctRet')
                /\ any.err = ctRet'.err]_vars

\* C36 amended: some(true) implies Changed(X.change) for a root X; Revert is
\* returned by both calls or by neither; and when Finalize returns
\* Changed(X.change) or fails with UnfinalisedAncestor, FinalizesAny returns
\* some(true), respectively fails with UnfinalisedAncestor, unless the first
\* matching node in pre-order lies below a root, on which FinalizesAny then
\* reports; where no root matches, Finalize does not fail although
\* FinalizesAny may fail with UnfinalisedAncestor.
C36_FinalizesAnyAgreesOnRoots ==
    [][(ctRet'.op = "Finalize")
          => LET any == AnyBefore(TreeRoots, BestFinalizedNumber, ctRet')
                 below == FirstMatchBelowRoot(TreeRoots, ctRet')
             IN /\ (any.ret = <<TRUE>>) => ChangedRoot(TreeRoots, ctRet')
                /\ (any.err = "Revert") = (ctRet'.err = "Revert")
                /\ ChangedRoot(TreeRoots, ctRet') => (any.ret = <<TRUE>> \/ below)
                /\ (ctRet'.err = "UnfinalisedAncestor")
                      => (any.err = "UnfinalisedAncestor" \/ below)
                /\ (any.err = "UnfinalisedAncestor" /\ ctRet'.err = "none") => below
                /\ (~below /\ ctRet'.err # "Revert")
                      => /\ any.err = ctRet'.err
                         /\ (any.ret = <<TRUE>>) = ChangedRoot(TreeRoots, ctRet')]_vars
\* Finalize has returned Changed(X.change) for a root X whose children were
\* promoted to roots.
C36_Witness ==
    /\ ctRet.op = "Finalize"
    /\ ctRet.err = "none"
    /\ ctRet.result.kind = "Changed"
    /\ ctRet.result.value # <<>>
    /\ ctRet.predicate # Hashes
    /\ TreeRoots # <<>>
\* C37: when the descendant oracle returns an error at any point of Import,
\* FinalizesAnyWithDescendentIf or FinalizeWithDescendentIf (the pruning
\* pass over the remaining roots included), the call returns that error and
\* the forest and best_finalized_number are the same as before the call.
C37_OracleErrorLeavesTreeUnchanged ==
    [][(ctRet'.err = "OracleError")
          => /\ TreeRoots' = TreeRoots
             /\ BestFinalizedNumber' = BestFinalizedNumber]_vars
\* C38: in every reachable state each (number, hash) pair occurs at most
\* once in the leaf set, so Count() is the number of distinct leaves and
\* len(Hashes()) = Count(); importing the same (hash, number) twice does not
\* create a second entry.
C38_LeavesOccurOnce ==
    /\ \A p \in LeafPairs(storage) : Occurrences(storage, p[1], p[2]) = 1
    /\ Count(storage) = Cardinality(LeafPairs(storage))
    /\ Len(LeafSetHashes(storage)) = Count(storage)
\* The keys of child trie c visible through the innermost diff: the
\* committed keys without those the diff deletes, with those it upserts.
MergedChildKeys(t, c) ==
    mergedKeys(childDiff(getCurrentTransaction(t), c),
               SortedSeq(DOMAIN childEntries(t, c)))

\* C39: with a transaction open in which child trie c has pending changes
\* and is not scheduled for deletion, GetKeysWithPrefixFromChild(c, prefix)
\* returns exactly the keys with the prefix in the merged view of c, which
\* are the keys GetChildStorage reports as present.
C39_KeysWithPrefixFromMergedChild ==
    hasCurrentTransaction(ts) =>
        \A c \in ChildKeys :
            (/\ c \in DOMAIN getCurrentTransaction(ts).childChangeSet
             /\ c \notin getCurrentTransaction(ts).deletes)
            => \A prefix \in ChildPrefixes \cup {<<>>} :
                   /\ GetKeysWithPrefixFromChild(ts, c, prefix).keys
                          = {k \in MergedChildKeys(ts, c) : HasPrefix(k, prefix)}
                   /\ MergedChildKeys(ts, c)
                          = {k \in ChildTrieKeys : GetChildStorage(ts, c, k).val # Nil}
(***************************************************************************)
(* Claims about CandidateValidation (checked under SpecCV)                 *)
(***************************************************************************)

ValidationRequests == {"ValidateFromChainState", "ValidateFromExhaustive"}

\* C40: every ValidateFromChainState or ValidateFromExhaustive message that
\* processMessages receives is eventually answered with exactly one response
\* on its reply channel, carrying the error when the validation failed (also
\* when no result was produced), and the loop keeps running until Stop is
\* called.
C40_ValidationRequestsAnsweredOnce ==
    /\ [](\A id \in 1..MaxMessages :
              /\ Len(cv.replies[id]) <= 1
              /\ Len(cv.replies[id]) = 1 => cv.replies[id][1].err = (id \in cv.failed))
    /\ \A id \in 1..MaxMessages :
           (cv.pc = "handle" /\ cv.cur.id = id /\ cv.cur.kind \in ValidationRequests)
               ~> (Len(cv.replies[id]) = 1)
    /\ [](cv.pc \in {"returned", "panicked"} => cv.stop = "closed")
====
